---------------------------- MODULE Spec2Model ----------------------------
(***************************************************************************)
(* A model of openalex_work_to_table.py: one run of main() turning a JSON  *)
(* payload of OpenAlex works into a table with a fixed header.             *)
(*                                                                         *)
(* Representation.                                                         *)
(*  - A Python str is a sequence of one-character strings ("text").        *)
(*  - A Python/JSON value is a tagged record: [t |-> "null"],              *)
(*    [t |-> "bool", v |-> TRUE], [t |-> "num", v |-> 5], [t |-> "nan"],   *)
(*    [t |-> "str", v |-> text], [t |-> "list", v |-> <<values>>],         *)
(*    [t |-> "dict", v |-> << <<key, value>>, ... >>] (insertion order,    *)
(*    keys unique).  A dict key is a TLA+ string; where Python turns a key *)
(*    into text (repr of a dict, iteration over a dict) the key appears as *)
(*    one symbol of the text.                                              *)
(*  - Source strings contain no quote or backslash, so repr() of a str is  *)
(*    the str between single quotes.                                       *)
(*  - The table file is kept at the level of csv.writer's rows: a sequence *)
(*    of lines, each a sequence of cells (quoting by the csv module is not *)
(*    modelled).                                                           *)
(***************************************************************************)
EXTENDS Integers, Sequences, FiniteSets, TLC

(***************************************************************************)
(* Python values                                                           *)
(***************************************************************************)
Null == [t |-> "null"]
NaN == [t |-> "nan"]
B(b) == [t |-> "bool", v |-> b]
N(n) == [t |-> "num", v |-> n]
St(s) == [t |-> "str", v |-> s]
L(s) == [t |-> "list", v |-> s]
D(pairs) == [t |-> "dict", v |-> pairs]

IsDict(x) == x.t = "dict"
IsList(x) == x.t = "list"
IsStr(x) == x.t = "str"
IsBool(x) == x.t = "bool"

\* Python truth value of x (bool(x)).
Truthy(x) ==
  CASE x.t = "null" -> FALSE
    [] x.t = "bool" -> x.v
    [] x.t = "num" -> x.v # 0
    [] x.t = "nan" -> TRUE
    [] OTHER -> Len(x.v) > 0

\* Python `x or y`.
Or(x, y) == IF Truthy(x) THEN x ELSE y

\* k in d, for a dict d.
HasKey(d, k) == \E i \in 1..Len(d.v) : d.v[i][1] = k

\* d.get(k) for a dict d: the value, or None when the key is absent.
DGet(d, k) ==
  IF HasKey(d, k)
  THEN d.v[CHOOSE i \in 1..Len(d.v) : d.v[i][1] = k][2]
  ELSE Null

\* What `for x in v` iterates over: the elements of a list, the characters of
\* a str, the keys of a dict.
Items(x) ==
  CASE x.t = "list" -> x.v
    [] x.t = "str" -> [i \in 1..Len(x.v) |-> St(<<x.v[i]>>)]
    [] x.t = "dict" -> [i \in 1..Len(x.v) |-> St(<<x.v[i][1]>>)]
    [] OTHER -> <<>>

\* iter(v) and len(v) raise TypeError on these.
NotIterable(x) == x.t \in {"null", "bool", "num", "nan"}

(***************************************************************************)
(* Text                                                                    *)
(***************************************************************************)
WS == {" ", "\t", "\r", "\n"}

RECURSIVE LStrip(_)
LStrip(s) == IF s # <<>> /\ Head(s) \in WS THEN LStrip(Tail(s)) ELSE s

RECURSIVE RStrip(_)
RStrip(s) ==
  IF s # <<>> /\ s[Len(s)] \in WS THEN RStrip(SubSeq(s, 1, Len(s) - 1)) ELSE s

\* str.strip()
Strip(s) == RStrip(LStrip(s))

\* _WS_RE.sub(" ", s): every maximal run of blanks becomes one space.
RECURSIVE WsSub(_)
WsSub(s) ==
  IF s = <<>> THEN <<>>
  ELSE IF Head(s) \in WS
       THEN <<" ">> \o WsSub(LStrip(s))
       ELSE <<Head(s)>> \o WsSub(Tail(s))

\* sep.join(parts), parts a sequence of texts.
RECURSIVE Join(_, _)
Join(parts, sep) ==
  IF parts = <<>> THEN <<>>
  ELSE IF Len(parts) = 1 THEN parts[1]
  ELSE parts[1] \o sep \o Join(Tail(parts), sep)

\* The first index at which sep occurs in s, 0 when it does not.
FirstOcc(s, sep) ==
  LET hits == {i \in 1..(Len(s) - Len(sep) + 1) :
                 SubSeq(s, i, i + Len(sep) - 1) = sep}
  IN IF hits = {} THEN 0 ELSE CHOOSE i \in hits : \A j \in hits : i <= j

\* s.split(sep), sep a non-empty text.
RECURSIVE Split(_, _)
Split(s, sep) ==
  LET i == FirstOcc(s, sep)
  IN IF i = 0 THEN <<s>>
     ELSE <<SubSeq(s, 1, i - 1)>> \o Split(SubSeq(s, i + Len(sep), Len(s)), sep)

Digit(d) == <<"0", "1", "2", "3", "4", "5", "6", "7", "8", "9">>[d + 1]

RECURSIVE NatStr(_)
NatStr(n) == IF n < 10 THEN <<Digit(n)>> ELSE NatStr(n \div 10) \o <<Digit(n % 10)>>

\* str(n) for an int n.
IntStr(n) == IF n < 0 THEN <<"-">> \o NatStr(-n) ELSE NatStr(n)

tTrue == <<"T", "r", "u", "e">>
tFalse == <<"F", "a", "l", "s", "e">>
tVrai == <<"V", "r", "a", "i">>
tFaux == <<"F", "a", "u", "x">>
tNone == <<"N", "o", "n", "e">>
tNan == <<"n", "a", "n">>

\* repr(x)
RECURSIVE Repr(_)
ReprSeq(xs) == Join([i \in 1..Len(xs) |-> Repr(xs[i])], <<",", " ">>)
ReprPairs(ps) ==
  Join([i \in 1..Len(ps) |-> <<"'", ps[i][1], "'", ":", " ">> \o Repr(ps[i][2])],
       <<",", " ">>)
Repr(x) ==
  CASE x.t = "null" -> tNone
    [] x.t = "bool" -> IF x.v THEN tTrue ELSE tFalse
    [] x.t = "num" -> IntStr(x.v)
    [] x.t = "nan" -> tNan
    [] x.t = "str" -> <<"'">> \o x.v \o <<"'">>
    [] x.t = "list" -> <<"[">> \o ReprSeq(x.v) \o <<"]">>
    [] x.t = "dict" -> <<"{">> \o ReprPairs(x.v) \o <<"}">>

\* str(x): the text itself for a str, repr(x) for everything else.
PyStr(x) == IF x.t = "str" THEN x.v ELSE Repr(x)

(***************************************************************************)
(* Helpers of the program                                                  *)
(***************************************************************************)
\* clean_text(s): None and non-strings pass through.
clean_text(s) == IF s.t = "str" THEN St(Strip(WsSub(s.v))) ELSE s

norm_none_keeps_none(x, cell_missing) == x

\* norm_none that takes the empty string for a missing value too.
norm_none_empty_as_none(x, cell_missing) ==
  IF x.t \in {"null", "nan"} \/ x = St(<<>>) THEN St(cell_missing) ELSE x

\* norm_none(v, cell_missing): the value itself unless None or NaN.
norm_none(x, cell_missing) ==
  IF x.t \in {"null", "nan"} THEN St(cell_missing) ELSE x

\* fmt_bool with the test `if not v` in place of `if v is None` (line 361).
fmt_bool_falsy_missing(x, style, cell_missing) ==
  IF ~Truthy(x) THEN cell_missing
  ELSE IF x.t # "bool" THEN PyStr(x)
  ELSE IF style = "fr" THEN tVrai
  ELSE tTrue

\* fmt_bool(v, style, cell_missing) -> text
fmt_bool(x, style, cell_missing) ==
  IF x.t = "null" THEN cell_missing
  ELSE IF x.t # "bool" THEN PyStr(x)
  ELSE IF style = "fr" THEN (IF x.v THEN tVrai ELSE tFaux)
  ELSE (IF x.v THEN tTrue ELSE tFalse)

\* join_tokens that keeps a blank element as an empty token.
join_tokens_keeps_blank(items, token_missing) ==
  [i \in 1..Len(items) |->
     IF items[i].t = "null" THEN token_missing ELSE Strip(PyStr(items[i]))]

\* The normalised tokens of join_list (lines 378-383).
join_tokens(items, token_missing) ==
  [i \in 1..Len(items) |->
     IF items[i].t = "null" THEN token_missing
     ELSE LET s == Strip(PyStr(items[i]))
          IN IF s = <<>> THEN token_missing ELSE s]

\* join_list with the per-token marker for an empty sequence.
join_list_empty_as_token(x, sep, cell_missing, token_missing) ==
  IF x.t = "null" THEN cell_missing
  ELSE IF Len(Items(x)) = 0 THEN token_missing
  ELSE LET tokens == join_tokens(Items(x), token_missing)
       IN IF \A i \in 1..Len(tokens) : tokens[i] = token_missing
          THEN token_missing
          ELSE Join(tokens, sep)

\* join_list without lines 384-385.
join_list_no_collapse(x, sep, cell_missing, token_missing) ==
  IF x.t = "null" \/ Len(Items(x)) = 0 THEN cell_missing
  ELSE Join(join_tokens(Items(x), token_missing), sep)

\* join_list(items, sep, cell_missing, token_missing) -> text.  items is None
\* or something with a length (the callers that pass a number raise, see
\* JoinRaises).
join_list(x, sep, cell_missing, token_missing) ==
  IF x.t = "null" \/ Len(Items(x)) = 0 THEN cell_missing
  ELSE LET tokens == join_tokens(Items(x), token_missing)
       IN IF \A i \in 1..Len(tokens) : tokens[i] = token_missing
          THEN token_missing
          ELSE Join(tokens, sep)

\* join_list(x, ...) raises TypeError at len(items).
JoinRaises(x) == x.t \in {"bool", "num", "nan"}

\* repr_or_empty(obj, cell_missing) -> text
repr_or_empty(x, cell_missing) == IF x.t = "null" THEN cell_missing ELSE Repr(x)

\* get(d, path): safe access to nested keys.
RECURSIVE get(_, _)
get(d, path) ==
  IF path = <<>> THEN d
  ELSE IF d.t = "dict" THEN get(DGet(d, Head(path)), Tail(path))
  ELSE Null

(***************************************************************************)
(* Abstract reconstruction and entity formatters                           *)
(***************************************************************************)
IsNumList(x) == x.t = "list" /\ \A i \in 1..Len(x.v) : x.v[i].t = "num"

SeqMax(s) == CHOOSE m \in {s[i] : i \in 1..Len(s)} : \A i \in 1..Len(s) : s[i] <= m

Nums(x) == [i \in 1..Len(x.v) |-> x.v[i].v]

\* max_pos after the first loop of rebuild_abstract (lines 410-413), idx a
\* dict whose truthy values are lists of ints.
RECURSIVE MaxPosFrom(_, _)
MaxPosFrom(ps, m) ==
  IF ps = <<>> THEN m
  ELSE LET p == Head(ps)[2]
           m2 == IF Truthy(p) /\ SeqMax(Nums(p)) > m THEN SeqMax(Nums(p)) ELSE m
       IN MaxPosFrom(Tail(ps), m2)

\* words[pos] = term for a Python list of length Len(words): a negative pos
\* counts from the end.
PyIndex(words, pos) == IF pos < 0 THEN Len(words) + pos + 1 ELSE pos + 1

RECURSIVE PlaceTerm(_, _, _)
PlaceTerm(words, term, poss) ==
  IF poss = <<>> THEN words
  ELSE PlaceTerm([words EXCEPT ![PyIndex(words, Head(poss))] = term], term, Tail(poss))

\* The second loop of rebuild_abstract (lines 417-419), in dict order.
RECURSIVE PlaceAll(_, _)
PlaceAll(words, ps) ==
  IF ps = <<>> THEN words
  ELSE PlaceAll(PlaceTerm(words, Head(ps)[1], Nums(Head(ps)[2])), Tail(ps))

\* rebuild_abstract raises: .values() of a non-dict, max() of something that is
\* not a list of ints, iteration over a falsy non-iterable (None, 0, False) in
\* the second loop, an index outside the word list.  (Position lists hold
\* ints only in the inputs of this model.)
raises_rebuild_abstract(idx) ==
  /\ Truthy(idx)
  /\ \/ ~IsDict(idx)
     \/ \E i \in 1..Len(idx.v) : Truthy(idx.v[i][2]) /\ ~IsNumList(idx.v[i][2])
     \/ LET m == MaxPosFrom(idx.v, -1)
        IN /\ m >= 0
           /\ \E i \in 1..Len(idx.v) :
                LET p == idx.v[i][2]
                IN \/ NotIterable(p)
                   \/ /\ IsNumList(p)
                      /\ \E j \in 1..Len(p.v) : p.v[j].v > m \/ p.v[j].v < -(m + 1)

\* [""] * n
RECURSIVE Blanks(_)
Blanks(n) == IF n <= 0 THEN <<>> ELSE Append(Blanks(n - 1), "")

\* [w for w in words if w]
RECURSIVE Kept(_)
Kept(words) ==
  IF words = <<>> THEN <<>>
  ELSE (IF Head(words) # "" THEN <<Head(words)>> ELSE <<>>) \o Kept(Tail(words))

\* " ".join(kept): each word one symbol of the text.
JoinWords(kept) == St(Join([i \in 1..Len(kept) |-> <<kept[i]>>], <<" ">>))

\* rebuild_abstract that never yields a text.
rebuild_abstract_absent(idx) == Null

\* rebuild_abstract joining every slot, the empty ones included.
rebuild_abstract_keeps_gaps(idx) ==
  IF ~Truthy(idx) THEN Null
  ELSE IF MaxPosFrom(idx.v, -1) < 0 THEN Null
  ELSE JoinWords(PlaceAll(Blanks(MaxPosFrom(idx.v, -1) + 1), idx.v))

\* rebuild_abstract(abstract_inv_idx) -> str or None.  A term is a dict key and
\* appears in the text as one symbol.
rebuild_abstract(idx) ==
  IF ~Truthy(idx) THEN Null
  ELSE IF MaxPosFrom(idx.v, -1) < 0 THEN Null
  ELSE JoinWords(Kept(PlaceAll(Blanks(MaxPosFrom(idx.v, -1) + 1), idx.v)))

tCommaSp == <<",", " ">>

\* fmt_institution_entry(inst): id, "display_name", ror, country_code, type, [lineage]
fmt_institution_entry(inst) ==
  LET iid == Or(DGet(inst, "id"), St(<<>>))
      name == clean_text(Or(DGet(inst, "display_name"), St(<<>>)))
      ror == Or(DGet(inst, "ror"), St(<<>>))
      cc == Or(DGet(inst, "country_code"), St(<<>>))
      itype == Or(DGet(inst, "type"), St(<<>>))
      lineage == Or(DGet(inst, "lineage"), L(<<>>))
  IN PyStr(iid) \o tCommaSp \o <<"\"">> \o PyStr(name) \o <<"\"">> \o tCommaSp
       \o PyStr(ror) \o tCommaSp \o PyStr(cc) \o tCommaSp \o PyStr(itype)
       \o tCommaSp \o Repr(lineage)

\* fmt_affiliation_entry(aff): "raw_affiliation_string", [institution_ids]
fmt_affiliation_entry(aff) ==
  LET raw == clean_text(Or(DGet(aff, "raw_affiliation_string"), St(<<>>)))
      inst_ids == Or(DGet(aff, "institution_ids"), L(<<>>))
  IN <<"\"">> \o PyStr(raw) \o <<"\"">> \o tCommaSp \o Repr(inst_ids)

(***************************************************************************)
(* Flatteners.  Each returns a dict column -> Python value, as a function. *)
(* A raises_f predicate tells when the code of f raises (AttributeError    *)
(* on .get of a non-dict, TypeError on len() or iter() of a number); f     *)
(* itself is used only where it does not raise.                            *)
(***************************************************************************)
\* `x or {}` followed by .get(...) raises when x is truthy and no dict.
BadDict(x) == Truthy(x) /\ ~IsDict(x)

\* `for e in (x or [])` followed by e.get(...) raises.
BadDictList(x) ==
  LET xs == Or(x, L(<<>>))
  IN NotIterable(xs) \/ \E i \in 1..Len(Items(xs)) : ~IsDict(Items(xs)[i])

\* join_list(x or [], ...) as a cell.
JoinCell(x, sep, cm, tm) == St(join_list(Or(x, L(<<>>)), sep, cm, tm))

\* join_list of a list built by the code, as a cell.
JoinCol(xs, sep, cm, tm) == St(join_list(L(xs), sep, cm, tm))

\* `v if v not in (None, "") else token_missing`
NotBlankOr(x, tm) == IF x = Null \/ x = St(<<>>) THEN St(tm) ELSE x

raises_flatten_ids(work) == BadDict(DGet(work, "ids"))

\* flatten_ids(work, key, cell_missing)
flatten_ids(work, key, cm) ==
  norm_none(DGet(Or(DGet(work, "ids"), D(<<>>)), key), cm)

\* flatten_indexed_in(work, sep, cell_missing, token_missing)
flatten_indexed_in(work, sep, cm, tm) == JoinCell(DGet(work, "indexed_in"), sep, cm, tm)

\* flatten_lists_of_urls(work, key, sep, cell_missing, token_missing)
flatten_lists_of_urls(work, key, sep, cm, tm) == JoinCell(DGet(work, key), sep, cm, tm)

raises_flatten_authorships(work) ==
  \/ BadDictList(DGet(work, "authorships"))
  \/ LET auths == Items(Or(DGet(work, "authorships"), L(<<>>)))
     IN \E i \in 1..Len(auths) :
          LET a == auths[i]
          IN \/ JoinRaises(Or(DGet(a, "countries"), L(<<>>)))
             \/ NotIterable(Or(DGet(a, "raw_affiliation_strings"), L(<<>>)))
             \/ BadDictList(DGet(a, "institutions"))
             \/ BadDictList(DGet(a, "affiliations"))
             \/ BadDict(DGet(a, "author"))

AuthorEntities_first_only(a, key, inner_sep, tm) ==
  LET lst == Or(DGet(a, key), L(<<>>))
  IN IF Truthy(lst)
     THEN St(IF key = "institutions" THEN fmt_institution_entry(Items(lst)[1])
             ELSE fmt_affiliation_entry(Items(lst)[1]))
     ELSE St(tm)

\* The formatted institutions (or affiliations) of one author: one token.
AuthorEntities(a, key, inner_sep, tm) ==
  LET lst == Or(DGet(a, key), L(<<>>))
      its == Items(lst)
  IN IF Truthy(lst)
     THEN St(Join([j \in 1..Len(its) |->
                     IF key = "institutions" THEN fmt_institution_entry(its[j])
                     ELSE fmt_affiliation_entry(its[j])], inner_sep))
     ELSE St(tm)

\* [e.get(key) for e in items]
Pluck(items, key) == [i \in 1..Len(items) |-> DGet(items[i], key)]

\* [(e.get(sub) or {}).get(key) for e in items]
PluckSub(items, sub, key) ==
  [i \in 1..Len(items) |-> DGet(Or(DGet(items[i], sub), D(<<>>)), key)]

\* Some element e of items has a truthy non-dict e.get(sub).
BadSub(items, sub) == \E i \in 1..Len(items) : BadDict(DGet(items[i], sub))

\* The elements of the list field `key` of work (`work.get(key) or []`).
Elems(work, key) == Items(Or(DGet(work, key), L(<<>>)))

\* flatten_authorships(work, list_sep, inner_sep, bool_style, cell_missing, token_missing)
flatten_authorships(work, sep, inner_sep, style, cm, tm) ==
  LET auths == Elems(work, "authorships")
      n == Len(auths)
      positions == Pluck(auths, "author_position")
      countries == [i \in 1..n |-> JoinCell(DGet(auths[i], "countries"), sep, cm, tm)]
      is_corr == [i \in 1..n |-> St(fmt_bool(DGet(auths[i], "is_corresponding"), style, cm))]
      raw_names == [i \in 1..n |-> Or(clean_text(DGet(auths[i], "raw_author_name")), St(cm))]
      raw_affils_strings ==
        [i \in 1..n |->
           LET raw_affils_list == Items(Or(DGet(auths[i], "raw_affiliation_strings"), L(<<>>)))
           IN JoinCol([j \in 1..Len(raw_affils_list) |-> clean_text(raw_affils_list[j])],
                      sep, cm, tm)]
      insts_fmt == [i \in 1..n |-> AuthorEntities(auths[i], "institutions", inner_sep, tm)]
      affils_fmt == [i \in 1..n |-> AuthorEntities(auths[i], "affiliations", inner_sep, tm)]
      a_ids == PluckSub(auths, "author", "id")
      a_names == PluckSub(auths, "author", "display_name")
      a_orcids == [i \in 1..n |-> Or(PluckSub(auths, "author", "orcid")[i], St(tm))]
  IN    "authorships.author_position" :> JoinCol(positions, sep, cm, tm)
     @@ "authorships.institutions" :> JoinCol(insts_fmt, sep, cm, tm)
     @@ "authorships.countries" :> JoinCol(countries, sep, cm, tm)
     @@ "authorships.is_corresponding" :> JoinCol(is_corr, sep, cm, tm)
     @@ "authorships.raw_author_name" :> JoinCol(raw_names, sep, cm, tm)
     @@ "authorships.raw_affiliation_strings" :> JoinCol(raw_affils_strings, sep, cm, tm)
     @@ "authorships.affiliations" :> JoinCol(affils_fmt, sep, cm, tm)
     @@ "authorships.author.id" :> JoinCol(a_ids, sep, cm, tm)
     @@ "authorships.author.display_name" :> JoinCol(a_names, sep, cm, tm)
     @@ "authorships.author.orcid" :> JoinCol(a_orcids, sep, cm, tm)

raises_flatten_topics(work) ==
  \/ BadDictList(DGet(work, "topics"))
  \/ \E sub \in {"subfield", "field", "domain"} : BadSub(Elems(work, "topics"), sub)

\* flatten_topics(work, list_sep, cell_missing, token_missing)
flatten_topics(work, sep, cm, tm) ==
  LET topics == Elems(work, "topics")
  IN    "topics.id" :> JoinCol(Pluck(topics, "id"), sep, cm, tm)
     @@ "topics.display_name" :> JoinCol(Pluck(topics, "display_name"), sep, cm, tm)
     @@ "topics.score" :> JoinCol(Pluck(topics, "score"), sep, cm, tm)
     @@ "topics.subfield.id" :> JoinCol(PluckSub(topics, "subfield", "id"), sep, cm, tm)
     @@ "topics.subfield.display_name" :>
          JoinCol(PluckSub(topics, "subfield", "display_name"), sep, cm, tm)
     @@ "topics.field.id" :> JoinCol(PluckSub(topics, "field", "id"), sep, cm, tm)
     @@ "topics.field.display_name" :>
          JoinCol(PluckSub(topics, "field", "display_name"), sep, cm, tm)
     @@ "topics.domain.id" :> JoinCol(PluckSub(topics, "domain", "id"), sep, cm, tm)
     @@ "topics.domain.display_name" :>
          JoinCol(PluckSub(topics, "domain", "display_name"), sep, cm, tm)

raises_flatten_keywords(work) == BadDictList(DGet(work, "keywords"))

\* flatten_keywords(work, list_sep, cell_missing, token_missing)
flatten_keywords(work, sep, cm, tm) ==
  LET kws == Elems(work, "keywords")
  IN    "keywords.id" :> JoinCol(Pluck(kws, "id"), sep, cm, tm)
     @@ "keywords.display_name" :> JoinCol(Pluck(kws, "display_name"), sep, cm, tm)
     @@ "keywords.score" :> JoinCol(Pluck(kws, "score"), sep, cm, tm)

raises_flatten_concepts(work) == BadDictList(DGet(work, "concepts"))

\* flatten_concepts(work, list_sep, cell_missing, token_missing)
flatten_concepts(work, sep, cm, tm) ==
  LET cs == Elems(work, "concepts")
  IN    "concepts.id" :> JoinCol(Pluck(cs, "id"), sep, cm, tm)
     @@ "concepts.wikidata" :> JoinCol(Pluck(cs, "wikidata"), sep, cm, tm)
     @@ "concepts.display_name" :> JoinCol(Pluck(cs, "display_name"), sep, cm, tm)
     @@ "concepts.level" :> JoinCol(Pluck(cs, "level"), sep, cm, tm)
     @@ "concepts.score" :> JoinCol(Pluck(cs, "score"), sep, cm, tm)

raises_flatten_mesh_split(work) == BadDictList(DGet(work, "mesh"))

\* [fmt_bool(e.get(key), bool_style, cell_missing) for e in items]
PluckBool(items, key, style, cm) ==
  [i \in 1..Len(items) |-> St(fmt_bool(DGet(items[i], key), style, cm))]

\* flatten_mesh_split(work, list_sep, bool_style, cell_missing, token_missing)
flatten_mesh_split(work, sep, style, cm, tm) ==
  LET ms == Elems(work, "mesh")
  IN    "mesh.descriptor_ui" :> JoinCol(Pluck(ms, "descriptor_ui"), sep, cm, tm)
     @@ "mesh.descriptor_name" :> JoinCol(Pluck(ms, "descriptor_name"), sep, cm, tm)
     @@ "mesh.qualifier_ui" :> JoinCol(Pluck(ms, "qualifier_ui"), sep, cm, tm)
     @@ "mesh.qualifier_name" :> JoinCol(Pluck(ms, "qualifier_name"), sep, cm, tm)
     @@ "mesh.is_major_topic" :>
          JoinCol(PluckBool(ms, "is_major_topic", style, cm), sep, cm, tm)

\* The source sub-objects of the locations: [L.get("source") or {} for L in locs]
Sources(locs) == [i \in 1..Len(locs) |-> Or(DGet(locs[i], "source"), D(<<>>))]

\* The list fields of a source that are joined with join_list.
SourceListKeys == {"issn", "host_organization_lineage", "host_organization_lineage_names"}

\* A source sub-object on which the code raises: no dict, or a number where a
\* list is joined.
BadSource(x) ==
  \/ BadDict(x)
  \/ /\ IsDict(x)
     /\ \E k \in SourceListKeys : JoinRaises(Or(DGet(x, k), L(<<>>)))

raises_flatten_locations(work) ==
  \/ BadDictList(DGet(work, "locations"))
  \/ \E i \in 1..Len(Elems(work, "locations")) :
       BadSource(DGet(Elems(work, "locations")[i], "source"))

\* [e.get(key) if e.get(key) not in (None, "") else token_missing for e in items]
PluckNotBlank(items, key, tm) ==
  [i \in 1..Len(items) |-> NotBlankOr(DGet(items[i], key), tm)]

\* [join_list(e.get(key) or [], ...) for e in items]
PluckJoin(items, key, sep, cm, tm) ==
  [i \in 1..Len(items) |-> JoinCell(DGet(items[i], key), sep, cm, tm)]

\* flatten_locations(work, list_sep, bool_style, cell_missing, token_missing)
flatten_locations(work, sep, style, cm, tm) ==
  LET locs == Elems(work, "locations")
      srcs == Sources(locs)
  IN    "locations.is_oa" :> JoinCol(PluckBool(locs, "is_oa", style, cm), sep, cm, tm)
     @@ "locations.landing_page_url" :> JoinCol(Pluck(locs, "landing_page_url"), sep, cm, tm)
     @@ "locations.pdf_url" :> JoinCol(Pluck(locs, "pdf_url"), sep, cm, tm)
     @@ "locations.license" :> JoinCol(PluckNotBlank(locs, "license", tm), sep, cm, tm)
     @@ "locations.license_id" :> JoinCol(PluckNotBlank(locs, "license_id", tm), sep, cm, tm)
     @@ "locations.version" :> JoinCol(PluckNotBlank(locs, "version", tm), sep, cm, tm)
     @@ "locations.is_accepted" :>
          JoinCol(PluckBool(locs, "is_accepted", style, cm), sep, cm, tm)
     @@ "locations.is_published" :>
          JoinCol(PluckBool(locs, "is_published", style, cm), sep, cm, tm)
     @@ "locations.source.id" :> JoinCol(Pluck(srcs, "id"), sep, cm, tm)
     @@ "locations.source.display_name" :> JoinCol(Pluck(srcs, "display_name"), sep, cm, tm)
     @@ "locations.source.issn_l" :> JoinCol(PluckNotBlank(srcs, "issn_l", tm), sep, cm, tm)
     @@ "locations.source.issn" :> JoinCol(PluckJoin(srcs, "issn", sep, cm, tm), sep, cm, tm)
     @@ "locations.source.is_oa" :> JoinCol(PluckBool(srcs, "is_oa", style, cm), sep, cm, tm)
     @@ "locations.source.is_in_doaj" :>
          JoinCol(PluckBool(srcs, "is_in_doaj", style, cm), sep, cm, tm)
     @@ "locations.source.is_indexed_in_scopus" :>
          JoinCol(PluckBool(srcs, "is_indexed_in_scopus", style, cm), sep, cm, tm)
     @@ "locations.source.is_core" :>
          JoinCol(PluckBool(srcs, "is_core", style, cm), sep, cm, tm)
     @@ "locations.source.host_organization" :>
          JoinCol(PluckNotBlank(srcs, "host_organization", tm), sep, cm, tm)
     @@ "locations.source.host_organization_name" :>
          JoinCol(PluckNotBlank(srcs, "host_organization_name", tm), sep, cm, tm)
     @@ "locations.source.host_organization_lineage" :>
          JoinCol(PluckJoin(srcs, "host_organization_lineage", sep, cm, tm), sep, cm, tm)
     @@ "locations.source.host_organization_lineage_names" :>
          JoinCol(PluckJoin(srcs, "host_organization_lineage_names", sep, cm, tm), sep, cm, tm)
     @@ "locations.source.type" :> JoinCol(Pluck(srcs, "type"), sep, cm, tm)


\* A source sub-object of a single location on which the code raises.
raises_primary_location(work) ==
  \/ BadDict(DGet(work, "primary_location"))
  \/ BadSource(DGet(Or(DGet(work, "primary_location"), D(<<>>)), "source"))

\* The primary_location.* assignments of to_row (lines 799-821).
primary_location_block(work, sep, style, cm, tm) ==
  LET pl == Or(DGet(work, "primary_location"), D(<<>>))
      pls == Or(DGet(pl, "source"), D(<<>>))
  IN    "primary_location.is_oa" :> St(fmt_bool(DGet(pl, "is_oa"), style, cm))
     @@ "primary_location.landing_page_url" :> Or(DGet(pl, "landing_page_url"), St(cm))
     @@ "primary_location.pdf_url" :> Or(DGet(pl, "pdf_url"), St(cm))
     @@ "primary_location.source.id" :> Or(DGet(pls, "id"), St(cm))
     @@ "primary_location.source.display_name" :> Or(DGet(pls, "display_name"), St(cm))
     @@ "primary_location.source.issn_l" :> Or(DGet(pls, "issn_l"), St(cm))
     @@ "primary_location.source.issn" :> JoinCell(DGet(pls, "issn"), sep, cm, tm)
     @@ "primary_location.source.is_oa" :> St(fmt_bool(DGet(pls, "is_oa"), style, cm))
     @@ "primary_location.source.is_in_doaj" :> St(fmt_bool(DGet(pls, "is_in_doaj"), style, cm))
     @@ "primary_location.source.is_indexed_in_scopus" :>
          St(fmt_bool(DGet(pls, "is_indexed_in_scopus"), style, cm))
     @@ "primary_location.source.is_core" :> St(fmt_bool(DGet(pls, "is_core"), style, cm))
     @@ "primary_location.source.host_organization" :>
          Or(DGet(pls, "host_organization"), St(cm))
     @@ "primary_location.source.host_organization_name" :>
          Or(DGet(pls, "host_organization_name"), St(cm))
     @@ "primary_location.source.host_organization_lineage" :>
          JoinCell(DGet(pls, "host_organization_lineage"), sep, cm, tm)
     @@ "primary_location.source.host_organization_lineage_names" :>
          JoinCell(DGet(pls, "host_organization_lineage_names"), sep, cm, tm)
     @@ "primary_location.source.type" :> Or(DGet(pls, "type"), St(cm))
     @@ "primary_location.license" :> Or(DGet(pl, "license"), St(cm))
     @@ "primary_location.license_id" :> Or(DGet(pl, "license_id"), St(cm))
     @@ "primary_location.version" :> Or(DGet(pl, "version"), St(cm))
     @@ "primary_location.is_accepted" :> St(fmt_bool(DGet(pl, "is_accepted"), style, cm))
     @@ "primary_location.is_published" :> St(fmt_bool(DGet(pl, "is_published"), style, cm))

raises_flatten_best_oa_location(work) ==
  /\ Truthy(DGet(work, "best_oa_location"))
  /\ \/ ~IsDict(DGet(work, "best_oa_location"))
     \/ BadSource(DGet(DGet(work, "best_oa_location"), "source"))

\* The columns flatten_best_oa_location fills (the keys of `keys`, lines
\* 672-679, and the source.* list, lines 685-690).
BestOaCols ==
  {"best_oa_location.is_oa", "best_oa_location.landing_page_url",
   "best_oa_location.pdf_url", "best_oa_location.license",
   "best_oa_location.license_id", "best_oa_location.version",
   "best_oa_location.is_accepted", "best_oa_location.is_published",
   "best_oa_location.source.id", "best_oa_location.source.display_name",
   "best_oa_location.source.issn_l", "best_oa_location.source.issn",
   "best_oa_location.source.is_oa", "best_oa_location.source.is_in_doaj",
   "best_oa_location.source.is_indexed_in_scopus", "best_oa_location.source.is_core",
   "best_oa_location.source.host_organization",
   "best_oa_location.source.host_organization_name",
   "best_oa_location.source.host_organization_lineage",
   "best_oa_location.source.host_organization_lineage_names",
   "best_oa_location.source.type"}

\* flatten_best_oa_location that keeps an empty license_id (norm_none in place of
\* `or cell_missing`, line 677).
flatten_best_oa_location_keeps_blank(work, style, cm, sep, tm) ==
  LET b == DGet(work, "best_oa_location")
      src == Or(DGet(b, "source"), D(<<>>))
  IN IF ~Truthy(b) THEN [c \in BestOaCols |-> St(cm)]
     ELSE  "best_oa_location.is_oa" :> St(fmt_bool(DGet(b, "is_oa"), style, cm))
        @@ "best_oa_location.landing_page_url" :> Or(DGet(b, "landing_page_url"), St(cm))
        @@ "best_oa_location.pdf_url" :> Or(DGet(b, "pdf_url"), St(cm))
        @@ "best_oa_location.license" :> Or(DGet(b, "license"), St(cm))
        @@ "best_oa_location.license_id" :> norm_none(DGet(b, "license_id"), cm)
        @@ "best_oa_location.version" :> Or(DGet(b, "version"), St(cm))
        @@ "best_oa_location.is_accepted" :> St(fmt_bool(DGet(b, "is_accepted"), style, cm))
        @@ "best_oa_location.is_published" :> St(fmt_bool(DGet(b, "is_published"), style, cm))
        @@ "best_oa_location.source.id" :> Or(DGet(src, "id"), St(cm))
        @@ "best_oa_location.source.display_name" :> Or(DGet(src, "display_name"), St(cm))
        @@ "best_oa_location.source.issn_l" :> Or(DGet(src, "issn_l"), St(cm))
        @@ "best_oa_location.source.issn" :> JoinCell(DGet(src, "issn"), sep, cm, tm)
        @@ "best_oa_location.source.is_oa" :> St(fmt_bool(DGet(src, "is_oa"), style, cm))
        @@ "best_oa_location.source.is_in_doaj" :>
             St(fmt_bool(DGet(src, "is_in_doaj"), style, cm))
        @@ "best_oa_location.source.is_indexed_in_scopus" :>
             St(fmt_bool(DGet(src, "is_indexed_in_scopus"), style, cm))
        @@ "best_oa_location.source.is_core" :> St(fmt_bool(DGet(src, "is_core"), style, cm))
        @@ "best_oa_location.source.host_organization" :>
             Or(DGet(src, "host_organization"), St(cm))
        @@ "best_oa_location.source.host_organization_name" :>
             Or(DGet(src, "host_organization_name"), St(cm))
        @@ "best_oa_location.source.host_organization_lineage" :>
             JoinCell(DGet(src, "host_organization_lineage"), sep, cm, tm)
        @@ "best_oa_location.source.host_organization_lineage_names" :>
             JoinCell(DGet(src, "host_organization_lineage_names"), sep, cm, tm)
        @@ "best_oa_location.source.type" :> Or(DGet(src, "type"), St(cm))

\* flatten_best_oa_location(work, bool_style, cell_missing, list_sep, token_missing)
flatten_best_oa_location(work, style, cm, sep, tm) ==
  LET b == DGet(work, "best_oa_location")
      src == Or(DGet(b, "source"), D(<<>>))
  IN IF ~Truthy(b) THEN [c \in BestOaCols |-> St(cm)]
     ELSE  "best_oa_location.is_oa" :> St(fmt_bool(DGet(b, "is_oa"), style, cm))
        @@ "best_oa_location.landing_page_url" :> Or(DGet(b, "landing_page_url"), St(cm))
        @@ "best_oa_location.pdf_url" :> Or(DGet(b, "pdf_url"), St(cm))
        @@ "best_oa_location.license" :> Or(DGet(b, "license"), St(cm))
        @@ "best_oa_location.license_id" :> Or(DGet(b, "license_id"), St(cm))
        @@ "best_oa_location.version" :> Or(DGet(b, "version"), St(cm))
        @@ "best_oa_location.is_accepted" :> St(fmt_bool(DGet(b, "is_accepted"), style, cm))
        @@ "best_oa_location.is_published" :> St(fmt_bool(DGet(b, "is_published"), style, cm))
        @@ "best_oa_location.source.id" :> Or(DGet(src, "id"), St(cm))
        @@ "best_oa_location.source.display_name" :> Or(DGet(src, "display_name"), St(cm))
        @@ "best_oa_location.source.issn_l" :> Or(DGet(src, "issn_l"), St(cm))
        @@ "best_oa_location.source.issn" :> JoinCell(DGet(src, "issn"), sep, cm, tm)
        @@ "best_oa_location.source.is_oa" :> St(fmt_bool(DGet(src, "is_oa"), style, cm))
        @@ "best_oa_location.source.is_in_doaj" :>
             St(fmt_bool(DGet(src, "is_in_doaj"), style, cm))
        @@ "best_oa_location.source.is_indexed_in_scopus" :>
             St(fmt_bool(DGet(src, "is_indexed_in_scopus"), style, cm))
        @@ "best_oa_location.source.is_core" :> St(fmt_bool(DGet(src, "is_core"), style, cm))
        @@ "best_oa_location.source.host_organization" :>
             Or(DGet(src, "host_organization"), St(cm))
        @@ "best_oa_location.source.host_organization_name" :>
             Or(DGet(src, "host_organization_name"), St(cm))
        @@ "best_oa_location.source.host_organization_lineage" :>
             JoinCell(DGet(src, "host_organization_lineage"), sep, cm, tm)
        @@ "best_oa_location.source.host_organization_lineage_names" :>
             JoinCell(DGet(src, "host_organization_lineage_names"), sep, cm, tm)
        @@ "best_oa_location.source.type" :> Or(DGet(src, "type"), St(cm))

\* counts_by_year raises: iteration over a truthy number.
raises_flatten_counts_by_year(work) ==
  NotIterable(Or(DGet(work, "counts_by_year"), L(<<>>)))

\* flatten_counts_by_year without the cited_by_count key.
flatten_counts_by_year_year_only(work, sep, cm, tm) ==
  LET cby == SelectSeq(Elems(work, "counts_by_year"), IsDict)
  IN "counts_by_year.year" :> JoinCol(Pluck(cby, "year"), sep, cm, tm)

\* flatten_counts_by_year(work, list_sep, cell_missing, token_missing): the
\* dict elements only.
flatten_counts_by_year(work, sep, cm, tm) ==
  LET cby == SelectSeq(Elems(work, "counts_by_year"), IsDict)
  IN    "counts_by_year.year" :> JoinCol(Pluck(cby, "year"), sep, cm, tm)
     @@ "counts_by_year.cited_by_count" :> JoinCol(Pluck(cby, "cited_by_count"), sep, cm, tm)


(***************************************************************************)
(* The fixed header and the row of one work                                *)
(***************************************************************************)
HEADER_COLS ==
  <<"id", "doi", "title", "display_name", "publication_year", "publication_date", "language",
    "type", "type_crossref", "indexed_in", "institution_assertions", "countries_distinct_count",
    "institutions_distinct_count", "corresponding_author_ids", "corresponding_institution_ids",
    "fwci", "has_fulltext", "fulltext_origin", "cited_by_count", "is_retracted", "is_paratext",
    "locations_count",
    "datasets", "versions", "referenced_works_count", "referenced_works", "related_works",
    "cited_by_api_url",
    "counts_by_year.year", "counts_by_year.cited_by_count",
    "updated_date", "created_date",
    "ids.openalex", "ids.doi", "ids.mag", "ids.pmid", "ids.pmcid",
    "primary_location.is_oa", "primary_location.landing_page_url", "primary_location.pdf_url",
    "primary_location.source.id", "primary_location.source.display_name",
    "primary_location.source.issn_l",
    "primary_location.source.issn", "primary_location.source.is_oa",
    "primary_location.source.is_in_doaj",
    "primary_location.source.is_indexed_in_scopus", "primary_location.source.is_core",
    "primary_location.source.host_organization", "primary_location.source.host_organization_name",
    "primary_location.source.host_organization_lineage",
    "primary_location.source.host_organization_lineage_names",
    "primary_location.source.type", "primary_location.license", "primary_location.license_id",
    "primary_location.version", "primary_location.is_accepted", "primary_location.is_published",
    "open_access.is_oa", "open_access.oa_status", "open_access.oa_url",
    "open_access.any_repository_has_fulltext",
    "apc_list.value", "apc_list.currency", "apc_list.value_usd", "apc_paid.value",
    "apc_paid.currency", "apc_paid.value_usd",
    "citation_normalized_percentile.value", "citation_normalized_percentile.is_in_top_1_percent",
    "citation_normalized_percentile.is_in_top_10_percent", "cited_by_percentile_year.min",
    "cited_by_percentile_year.max",
    "biblio.volume", "biblio.issue", "biblio.first_page", "biblio.last_page",
    "primary_topic.id", "primary_topic.display_name", "primary_topic.score",
    "primary_topic.subfield.id",
    "primary_topic.subfield.display_name", "primary_topic.field.id",
    "primary_topic.field.display_name",
    "primary_topic.domain.id", "primary_topic.domain.display_name",
    "best_oa_location.is_oa", "best_oa_location.landing_page_url", "best_oa_location.pdf_url",
    "best_oa_location.source.id", "best_oa_location.source.display_name",
    "best_oa_location.source.issn_l",
    "best_oa_location.source.issn", "best_oa_location.source.is_oa",
    "best_oa_location.source.is_in_doaj",
    "best_oa_location.source.is_indexed_in_scopus", "best_oa_location.source.is_core",
    "best_oa_location.source.host_organization", "best_oa_location.source.host_organization_name",
    "best_oa_location.source.host_organization_lineage",
    "best_oa_location.source.host_organization_lineage_names",
    "best_oa_location.source.type", "best_oa_location.license", "best_oa_location.license_id",
    "best_oa_location.version", "best_oa_location.is_accepted", "best_oa_location.is_published",
    "abstract",
    "authorships.author_position", "authorships.institutions", "authorships.countries",
    "authorships.is_corresponding",
    "authorships.raw_author_name", "authorships.raw_affiliation_strings",
    "authorships.affiliations",
    "authorships.author.id", "authorships.author.display_name", "authorships.author.orcid",
    "topics.id", "topics.display_name", "topics.score", "topics.subfield.id",
    "topics.subfield.display_name",
    "topics.field.id", "topics.field.display_name", "topics.domain.id",
    "topics.domain.display_name",
    "keywords.id", "keywords.display_name", "keywords.score",
    "concepts.id", "concepts.wikidata", "concepts.display_name", "concepts.level",
    "concepts.score",
    "mesh.descriptor_ui", "mesh.descriptor_name", "mesh.qualifier_ui", "mesh.qualifier_name",
    "mesh.is_major_topic",
    "locations.is_oa", "locations.landing_page_url", "locations.pdf_url", "locations.license",
    "locations.license_id",
    "locations.version", "locations.is_accepted", "locations.is_published",
    "locations.source.id",
    "locations.source.display_name", "locations.source.issn_l", "locations.source.issn",
    "locations.source.is_oa",
    "locations.source.is_in_doaj", "locations.source.is_indexed_in_scopus",
    "locations.source.is_core",
    "locations.source.host_organization", "locations.source.host_organization_name",
    "locations.source.host_organization_lineage",
    "locations.source.host_organization_lineage_names",
    "locations.source.type",
    "sustainable_development_goals.id", "sustainable_development_goals.display_name",
    "sustainable_development_goals.score",
    "grants.funder", "grants.funder_display_name", "grants.award_id">>

\* direct_map of to_row: output column -> path (path_str.split(".")).
direct_map ==
  << <<"id", <<"id">> >>, <<"doi", <<"doi">> >>, <<"title", <<"title">> >>,
     <<"display_name", <<"display_name">> >>,
     <<"publication_year", <<"publication_year">> >>,
     <<"publication_date", <<"publication_date">> >>,
     <<"language", <<"language">> >>, <<"type", <<"type">> >>,
     <<"type_crossref", <<"type_crossref">> >>,
     <<"countries_distinct_count", <<"countries_distinct_count">> >>,
     <<"institutions_distinct_count", <<"institutions_distinct_count">> >>,
     <<"fwci", <<"fwci">> >>, <<"has_fulltext", <<"has_fulltext">> >>,
     <<"fulltext_origin", <<"fulltext_origin">> >>,
     <<"cited_by_count", <<"cited_by_count">> >>, <<"is_retracted", <<"is_retracted">> >>,
     <<"is_paratext", <<"is_paratext">> >>,
     <<"locations_count", <<"locations_count">> >>,
     <<"cited_by_api_url", <<"cited_by_api_url">> >>,
     <<"updated_date", <<"updated_date">> >>, <<"created_date", <<"created_date">> >>,
     <<"biblio.volume", <<"biblio", "volume">> >>, <<"biblio.issue", <<"biblio", "issue">> >>,
     <<"biblio.first_page", <<"biblio", "first_page">> >>,
     <<"biblio.last_page", <<"biblio", "last_page">> >>,
     <<"primary_topic.id", <<"primary_topic", "id">> >>,
     <<"primary_topic.display_name", <<"primary_topic", "display_name">> >>,
     <<"primary_topic.score", <<"primary_topic", "score">> >>,
     <<"primary_topic.subfield.id", <<"primary_topic", "subfield", "id">> >>,
     <<"primary_topic.subfield.display_name", <<"primary_topic", "subfield", "display_name">> >>,
     <<"primary_topic.field.id", <<"primary_topic", "field", "id">> >>,
     <<"primary_topic.field.display_name", <<"primary_topic", "field", "display_name">> >>,
     <<"primary_topic.domain.id", <<"primary_topic", "domain", "id">> >>,
     <<"primary_topic.domain.display_name", <<"primary_topic", "domain", "display_name">> >> >>

\* The body of the direct_map loop (lines 753-773) for one column.  No column
\* of direct_map starts with "raw", so the raw* clean-up never applies.
direct_cell(work, out_col, path, sep, style, cm, tm) ==
  LET val0 == IF Len(path) > 1 THEN get(work, path) ELSE DGet(work, path[1])
      val == IF out_col \in {"title", "display_name"} /\ IsStr(val0)
             THEN clean_text(val0) ELSE val0
  IN IF IsBool(val) THEN St(fmt_bool(val, style, cm))
     ELSE IF IsList(val) THEN St(join_list(val, sep, cm, tm))
     ELSE IF IsDict(val) THEN St(repr_or_empty(val, cm))
     ELSE norm_none(val, cm)

\* `x if x is not None else cell_missing`
IfNotNone(x, cm) == IF x = Null THEN St(cm) ELSE x

\* to_row raises on this work.
raises_to_row(work) ==
  \/ ~IsDict(work)
  \/ raises_flatten_counts_by_year(work)
  \/ \E k \in {"referenced_works", "related_works", "indexed_in",
               "corresponding_author_ids", "corresponding_institution_ids"} :
       JoinRaises(Or(DGet(work, k), L(<<>>)))
  \/ raises_flatten_ids(work)
  \/ raises_primary_location(work)
  \/ \E k \in {"open_access", "apc_list", "apc_paid", "citation_normalized_percentile",
               "cited_by_percentile_year"} : BadDict(DGet(work, k))
  \/ raises_flatten_best_oa_location(work)
  \/ raises_rebuild_abstract(DGet(work, "abstract_inverted_index"))
  \/ raises_flatten_authorships(work)
  \/ raises_flatten_topics(work)
  \/ raises_flatten_keywords(work)
  \/ raises_flatten_concepts(work)
  \/ raises_flatten_mesh_split(work)
  \/ raises_flatten_locations(work)
  \/ BadDictList(DGet(work, "sustainable_development_goals"))
  \/ BadDictList(DGet(work, "grants"))

\* to_row(work, list_sep, inner_sep, bool_style, cell_missing, token_missing):
\* the dict column -> value; later assignments override earlier ones.
to_row(work, sep, inner_sep, style, cm, tm) ==
  LET direct == [c \in {direct_map[i][1] : i \in 1..Len(direct_map)} |->
                   LET i == CHOOSE j \in 1..Len(direct_map) : direct_map[j][1] = c
                   IN direct_cell(work, c, direct_map[i][2], sep, style, cm, tm)]
      misc ==  "datasets" :> St(repr_or_empty(DGet(work, "datasets"), cm))
            @@ "versions" :> St(repr_or_empty(DGet(work, "versions"), cm))
            @@ "referenced_works_count" :> norm_none(DGet(work, "referenced_works_count"), cm)
            @@ "referenced_works" :> flatten_lists_of_urls(work, "referenced_works", sep, cm, tm)
            @@ "related_works" :> flatten_lists_of_urls(work, "related_works", sep, cm, tm)
      ids ==   "ids.openalex" :> flatten_ids(work, "openalex", cm)
            @@ "ids.doi" :> flatten_ids(work, "doi", cm)
            @@ "ids.mag" :> flatten_ids(work, "mag", cm)
            @@ "ids.pmid" :> flatten_ids(work, "pmid", cm)
            @@ "ids.pmcid" :> flatten_ids(work, "pmcid", cm)
      groups == "indexed_in" :> flatten_indexed_in(work, sep, cm, tm)
            @@ "institution_assertions" :> St(cm)
            @@ "corresponding_author_ids" :>
                 JoinCell(DGet(work, "corresponding_author_ids"), sep, cm, tm)
            @@ "corresponding_institution_ids" :>
                 JoinCell(DGet(work, "corresponding_institution_ids"), sep, cm, tm)
      oa == Or(DGet(work, "open_access"), D(<<>>))
      apcl == Or(DGet(work, "apc_list"), D(<<>>))
      apcp == Or(DGet(work, "apc_paid"), D(<<>>))
      cnp == Or(DGet(work, "citation_normalized_percentile"), D(<<>>))
      cpy == Or(DGet(work, "cited_by_percentile_year"), D(<<>>))
      scal ==  "open_access.is_oa" :> St(fmt_bool(DGet(oa, "is_oa"), style, cm))
            @@ "open_access.oa_status" :> Or(DGet(oa, "oa_status"), St(cm))
            @@ "open_access.oa_url" :> Or(DGet(oa, "oa_url"), St(cm))
            @@ "open_access.any_repository_has_fulltext" :>
                 St(fmt_bool(DGet(oa, "any_repository_has_fulltext"), style, cm))
            @@ "apc_list.value" :> IfNotNone(DGet(apcl, "value"), cm)
            @@ "apc_list.currency" :> Or(DGet(apcl, "currency"), St(cm))
            @@ "apc_list.value_usd" :> IfNotNone(DGet(apcl, "value_usd"), cm)
            @@ "apc_paid.value" :> IfNotNone(DGet(apcp, "value"), cm)
            @@ "apc_paid.currency" :> Or(DGet(apcp, "currency"), St(cm))
            @@ "apc_paid.value_usd" :> IfNotNone(DGet(apcp, "value_usd"), cm)
            @@ "citation_normalized_percentile.value" :> IfNotNone(DGet(cnp, "value"), cm)
            @@ "citation_normalized_percentile.is_in_top_1_percent" :>
                 St(fmt_bool(DGet(cnp, "is_in_top_1_percent"), style, cm))
            @@ "citation_normalized_percentile.is_in_top_10_percent" :>
                 St(fmt_bool(DGet(cnp, "is_in_top_10_percent"), style, cm))
            @@ "cited_by_percentile_year.min" :> IfNotNone(DGet(cpy, "min"), cm)
            @@ "cited_by_percentile_year.max" :> IfNotNone(DGet(cpy, "max"), cm)
      abstract_txt == Or(rebuild_abstract(DGet(work, "abstract_inverted_index")),
                         DGet(work, "abstract"))
      abstract == "abstract" :> (IF IsStr(abstract_txt) THEN clean_text(abstract_txt)
                                 ELSE norm_none(abstract_txt, cm))
      sdgs == Elems(work, "sustainable_development_goals")
      grants == Elems(work, "grants")
      tail ==  "sustainable_development_goals.id" :> JoinCol(Pluck(sdgs, "id"), sep, cm, tm)
            @@ "sustainable_development_goals.display_name" :>
                 JoinCol(Pluck(sdgs, "display_name"), sep, cm, tm)
            @@ "sustainable_development_goals.score" :> JoinCol(Pluck(sdgs, "score"), sep, cm, tm)
            @@ "grants.funder" :> JoinCol(Pluck(grants, "funder"), sep, cm, tm)
            @@ "grants.funder_display_name" :>
                 JoinCol(Pluck(grants, "funder_display_name"), sep, cm, tm)
            @@ "grants.award_id" :>
                 JoinCol([i \in 1..Len(grants) |->
                            IF DGet(grants[i], "award_id") \notin {Null, St(<<>>)}
                            THEN DGet(grants[i], "award_id") ELSE Null], sep, cm, tm)
  \* f @@ g keeps f where both are defined: the latest assignment comes first.
  IN tail
     @@ flatten_locations(work, sep, style, cm, tm)
     @@ flatten_mesh_split(work, sep, style, cm, tm)
     @@ flatten_concepts(work, sep, cm, tm)
     @@ flatten_keywords(work, sep, cm, tm)
     @@ flatten_topics(work, sep, cm, tm)
     @@ flatten_authorships(work, sep, inner_sep, style, cm, tm)
     @@ abstract
     @@ flatten_best_oa_location(work, style, cm, sep, tm)
     @@ scal
     @@ primary_location_block(work, sep, style, cm, tm)
     @@ groups
     @@ ids
     @@ misc
     @@ flatten_counts_by_year(work, sep, cm, tm)
     @@ direct

\* What csv.writer writes for a cell value: "" for None, str(v) otherwise.
CsvText(x) == IF x.t = "null" THEN <<>> ELSE PyStr(x)

\* The list main() hands to writer.writerow for a row dict (line 950).
row_cells(row, cm) ==
  [i \in 1..Len(HEADER_COLS) |->
     IF HEADER_COLS[i] \in DOMAIN row THEN CsvText(row[HEADER_COLS[i]]) ELSE cm]

(***************************************************************************)
(* Input shapes                                                            *)
(***************************************************************************)
iter_works_reversed(payload) ==
  LET Rev(xs) == [i \in 1..Len(xs) |-> xs[Len(xs) + 1 - i]]
  IN IF IsDict(payload)
     THEN IF HasKey(payload, "results") /\ IsList(DGet(payload, "results"))
          THEN Rev(SelectSeq(DGet(payload, "results").v, IsDict))
          ELSE <<payload>>
     ELSE IF IsList(payload) THEN Rev(SelectSeq(payload.v, IsDict))
     ELSE <<>>

iter_works_scalar_record(payload) ==
  IF IsDict(payload)
  THEN IF HasKey(payload, "results") /\ IsList(DGet(payload, "results"))
       THEN SelectSeq(DGet(payload, "results").v, IsDict)
       ELSE <<payload>>
  ELSE IF IsList(payload) THEN SelectSeq(payload.v, IsDict)
  ELSE <<payload>>

\* iter_works that takes every object with a `results` key for an envelope.
iter_works_any_results(payload) ==
  IF IsDict(payload)
  THEN IF HasKey(payload, "results")
       THEN (IF IsList(DGet(payload, "results"))
             THEN SelectSeq(DGet(payload, "results").v, IsDict) ELSE <<>>)
       ELSE <<payload>>
  ELSE IF IsList(payload) THEN SelectSeq(payload.v, IsDict)
  ELSE <<>>

\* iter_works(payload): the works the generator yields, in order.
iter_works(payload) ==
  IF IsDict(payload)
  THEN IF HasKey(payload, "results") /\ IsList(DGet(payload, "results"))
       THEN SelectSeq(DGet(payload, "results").v, IsDict)
       ELSE <<payload>>
  ELSE IF IsList(payload) THEN SelectSeq(payload.v, IsDict)
  ELSE <<>>

(***************************************************************************)
(* Bounds and input pools                                                  *)
(***************************************************************************)
\* The longest authorships list of a pooled work.
MaxAuthors == 2
\* The longest counts_by_year list of a pooled work.
MaxYears == 2
\* The longest array (top-level or `results`) of a pooled payload.
MaxRecords == 2

\* Sequences over S of length 0..n.
SeqsUpTo(S, n) == UNION {[1..k -> S] : k \in 0..n}

tNA == <<"N", "A">>
tI1 == <<"I", "1">>
tI2 == <<"I", "2">>
tCA == <<"C", "A">>
tFR == <<"F", "R">>

\* The configurations of a run.  A list separator is one character that
\* occurs neither in the punctuation of the entity formatters nor in the
\* source strings of the pools.
ListSeps == {<<"|">>, <<"/">>}
BoolStyles == {"en", "fr"}
CellMissings == {<<>>, tNA}
TokenMissings == {tNone, tNA}
Configs ==
  [list_sep : ListSeps, bool_style : BoolStyles, cell_missing : CellMissings,
   token_missing : TokenMissings, log_out : BOOLEAN]

Inst1 ==
  D(<< <<"id", St(tI1)>>, <<"display_name", St(<<" ", "U", "\n", "A">>)>>,
       <<"ror", St(<<"R", "1">>)>>, <<"country_code", St(tCA)>>,
       <<"type", St(<<"e", "d", "u">>)>>, <<"lineage", L(<<St(tI1)>>)>> >>)
Inst2 == D(<< <<"id", St(tI2)>>, <<"ror", Null>> >>)
Affil1 ==
  D(<< <<"raw_affiliation_string", St(<<"D", "\t", "x">>)>>,
       <<"institution_ids", L(<<St(tI1)>>)>> >>)

\* Authorship entries: complete, empty, all null, and partial ones.
AuthFull ==
  D(<< <<"author_position", St(<<"f", "i", "r", "s", "t">>)>>,
       <<"author", D(<< <<"id", St(<<"A", "1">>)>>, <<"display_name", St(<<"A", "l">>)>>,
                        <<"orcid", St(<<"O", "1">>)>> >>)>>,
       <<"institutions", L(<<Inst1, Inst2>>)>>,
       <<"countries", L(<<St(tCA)>>)>>,
       <<"is_corresponding", B(TRUE)>>,
       <<"raw_author_name", St(<<"A", " ", " ", "l">>)>>,
       <<"raw_affiliation_strings", L(<<St(<<"D", "\n", "x">>)>>)>>,
       <<"affiliations", L(<<Affil1>>)>> >>)
AuthBare == D(<<>>)
AuthNulls ==
  D(<< <<"author_position", Null>>, <<"author", Null>>, <<"institutions", Null>>,
       <<"countries", Null>>, <<"is_corresponding", Null>>, <<"raw_author_name", Null>>,
       <<"raw_affiliation_strings", Null>>, <<"affiliations", Null>> >>)
AuthPartial ==
  D(<< <<"author_position", St(<<"l", "a", "s", "t">>)>>,
       <<"author", D(<< <<"display_name", St(<<"B", "o">>)>> >>)>>,
       <<"institutions", L(<<Inst2>>)>>,
       <<"countries", L(<<St(tCA), St(tFR)>>)>>,
       <<"is_corresponding", B(FALSE)>>,
       <<"affiliations", L(<<>>)>> >>)
AuthorPool == {AuthFull, AuthBare, AuthNulls, AuthPartial}

\* Elements of counts_by_year: complete, without a count, with a null year,
\* and an element that is no object.
YearPool ==
  {D(<< <<"year", N(2020)>>, <<"cited_by_count", N(5)>> >>),
   D(<< <<"year", N(2021)>> >>),
   D(<< <<"year", Null>>, <<"cited_by_count", N(0)>> >>),
   St(<<"x">>)}

tW1 == <<"W", "1">>

AuthorWorks ==
  {D(<< <<"id", St(tW1)>>, <<"authorships", L(as)>> >>) : as \in SeqsUpTo(AuthorPool, MaxAuthors)}
YearWorks ==
  {D(<< <<"id", St(tW1)>>, <<"counts_by_year", L(ys)>> >>) : ys \in SeqsUpTo(YearPool, MaxYears)}

tT == <<"T", "1">>
tK == <<"K", "1">>
tU == <<"u", "r", "l">>
tX == <<"x">>

Source1 ==
  D(<< <<"id", St(<<"S", "1">>)>>, <<"display_name", St(<<"J", "n", "l">>)>>,
       <<"issn_l", St(<<"1", "-", "2">>)>>, <<"issn", L(<<St(<<"1", "-", "2">>), St(<<"3", "-", "4">>)>>)>>,
       <<"is_oa", B(TRUE)>>, <<"is_in_doaj", B(FALSE)>>, <<"is_indexed_in_scopus", B(TRUE)>>,
       <<"is_core", B(FALSE)>>, <<"host_organization", St(<<"P", "1">>)>>,
       <<"host_organization_name", St(<<"P", "u", "b">>)>>,
       <<"host_organization_lineage", L(<<St(<<"P", "1">>)>>)>>,
       <<"host_organization_lineage_names", L(<<St(<<"P", "u", "b">>)>>)>>,
       <<"type", St(<<"j">>)>> >>)
Loc1 ==
  D(<< <<"is_oa", B(TRUE)>>, <<"landing_page_url", St(tU)>>, <<"pdf_url", Null>>,
       <<"source", Source1>>, <<"license", St(<<"c", "c">>)>>, <<"license_id", St(<<>>)>>,
       <<"version", St(<<"v", "1">>)>>, <<"is_accepted", B(FALSE)>>,
       <<"is_published", B(TRUE)>> >>)
Loc2 == D(<< <<"is_oa", B(FALSE)>>, <<"source", Null>> >>)
Topic1 ==
  D(<< <<"id", St(tT)>>, <<"display_name", St(<<"T", "o", "p">>)>>, <<"score", N(1)>>,
       <<"subfield", D(<< <<"id", St(<<"S", "F">>)>>, <<"display_name", St(<<"s", "f">>)>> >>)>>,
       <<"field", D(<< <<"id", St(<<"F", "1">>)>>, <<"display_name", St(<<"f">>)>> >>)>>,
       <<"domain", D(<< <<"id", St(<<"D", "1">>)>>, <<"display_name", St(<<"d">>)>> >>)>> >>)

\* A work with every block populated.
WorkFull ==
  D(<< <<"id", St(tW1)>>, <<"doi", St(<<"1", "0", ".", "1">>)>>,
       <<"title", St(<<" ", "A", "\n", "\t", "t", " ">>)>>,
       <<"display_name", St(<<"A", " ", "t">>)>>,
       <<"publication_year", N(2024)>>, <<"language", St(<<"e", "n">>)>>,
       <<"fwci", NaN>>, <<"has_fulltext", B(FALSE)>>, <<"is_retracted", B(FALSE)>>,
       <<"is_paratext", B(TRUE)>>, <<"cited_by_count", N(0)>>,
       <<"indexed_in", L(<<St(<<"c", "r">>), St(<<"p", "m">>)>>)>>,
       <<"datasets", L(<<>>)>>, <<"versions", D(<< <<"k", N(1)>> >>)>>,
       <<"referenced_works_count", N(2)>>,
       <<"referenced_works", L(<<St(<<"W", "2">>), St(<<"W", "3">>)>>)>>,
       <<"related_works", L(<<St(<<" ">>), Null>>)>>,
       <<"corresponding_author_ids", L(<<St(<<"A", "1">>)>>)>>,
       <<"counts_by_year", L(<<D(<< <<"year", N(2020)>>, <<"cited_by_count", N(5)>> >>),
                               D(<< <<"year", N(2021)>>, <<"cited_by_count", N(9)>> >>)>>)>>,
       <<"ids", D(<< <<"openalex", St(tW1)>>, <<"doi", St(<<"1", "0", ".", "1">>)>>,
                     <<"mag", N(77)>>, <<"pmid", Null>> >>)>>,
       <<"primary_location", Loc1>>, <<"best_oa_location", Loc1>>,
       <<"open_access", D(<< <<"is_oa", B(TRUE)>>, <<"oa_status", St(<<"g">>)>>,
                             <<"any_repository_has_fulltext", B(FALSE)>> >>)>>,
       <<"apc_list", D(<< <<"value", N(0)>>, <<"currency", St(<<"U", "S", "D">>)>>,
                          <<"value_usd", N(100)>> >>)>>,
       <<"citation_normalized_percentile",
         D(<< <<"value", N(1)>>, <<"is_in_top_1_percent", B(FALSE)>>,
              <<"is_in_top_10_percent", B(TRUE)>> >>)>>,
       <<"cited_by_percentile_year", D(<< <<"min", N(0)>>, <<"max", N(99)>> >>)>>,
       <<"biblio", D(<< <<"volume", St(<<"7">>)>>, <<"issue", Null>> >>)>>,
       <<"primary_topic", Topic1>>,
       <<"abstract_inverted_index",
         D(<< <<"A", L(<<N(0), N(3)>>)>>, <<"b", L(<<N(1)>>)>>, <<"c", L(<<N(-1)>>)>> >>)>>,
       <<"authorships", L(<<AuthFull, AuthPartial>>)>>,
       <<"topics", L(<<Topic1, D(<< <<"id", St(<<"T", "2">>)>> >>)>>)>>,
       <<"keywords", L(<<D(<< <<"id", St(tK)>>, <<"display_name", St(<<"k", "w">>)>>,
                              <<"score", N(1)>> >>)>>)>>,
       <<"concepts", L(<<D(<< <<"id", St(<<"C", "1">>)>>, <<"wikidata", St(<<"Q", "1">>)>>,
                              <<"display_name", St(<<"c">>)>>, <<"level", N(0)>>,
                              <<"score", N(1)>> >>)>>)>>,
       <<"mesh", L(<<D(<< <<"descriptor_ui", St(<<"D", "0">>)>>,
                          <<"descriptor_name", St(<<"d", "n">>)>>,
                          <<"qualifier_ui", St(<<>>)>>, <<"qualifier_name", Null>>,
                          <<"is_major_topic", B(FALSE)>> >>)>>)>>,
       <<"locations", L(<<Loc1, Loc2>>)>>,
       <<"sustainable_development_goals",
         L(<<D(<< <<"id", St(<<"G", "3">>)>>, <<"display_name", St(<<"g">>)>>,
                  <<"score", N(1)>> >>)>>)>>,
       <<"grants", L(<<D(<< <<"funder", St(<<"F", "1">>)>>,
                            <<"funder_display_name", St(<<"N", "S", "F">>)>>,
                            <<"award_id", St(<<>>)>> >>),
                       D(<< <<"funder", St(<<"F", "2">>)>>, <<"award_id", St(<<"a", "7">>)>> >>)>>)>> >>)

\* A work with one field: {key: value}.
Work1(key, value) == D(<< <<key, value>> >>)

\* Works whose anomalies the code absorbs: fields absent, null, empty or of
\* another type, without an exception.
OddWorks ==
  {D(<<>>),
   D(<< <<"id", Null>>, <<"title", Null>>, <<"ids", Null>>, <<"authorships", Null>>,
        <<"primary_location", Null>>, <<"best_oa_location", Null>>, <<"topics", Null>>,
        <<"grants", Null>>, <<"abstract_inverted_index", Null>>, <<"counts_by_year", Null>>,
        <<"open_access", Null>>, <<"locations", Null>>, <<"datasets", Null>> >>),
   Work1("ids", St(<<>>)), Work1("ids", L(<<>>)), Work1("ids", N(0)),
   Work1("authorships", D(<<>>)), Work1("authorships", St(<<>>)),
   Work1("title", N(5)), Work1("doi", L(<<St(tX), Null>>)), Work1("doi", St(<<>>)),
   Work1("publication_year", D(<< <<"k", St(tX)>> >>)),
   Work1("counts_by_year", St(<<"a", "b">>)),
   Work1("referenced_works", St(<<"a", "b">>)),
   Work1("primary_location", D(<< <<"source", L(<<>>)>> >>)),
   Work1("best_oa_location", D(<< <<"is_oa", St(<<"y">>)>> >>)),
   Work1("abstract", St(<<" ", "a", "\n", "b">>)),
   Work1("abstract_inverted_index", D(<< <<"a", L(<<N(0), N(2)>>)>>, <<"b", L(<<N(-2)>>)>> >>)),
   Work1("grants", L(<<D(<< <<"award_id", Null>> >>)>>))}

\* Works with a field of a type on which the code raises.
BadWorks ==
  {Work1("ids", St(tX)), Work1("ids", L(<<N(1)>>)),
   Work1("authorships", L(<<St(tX)>>)), Work1("authorships", N(5)),
   Work1("authorships", L(<<Null>>)), Work1("authorships", St(tX)),
   Work1("authorships", L(<<Work1("institutions", L(<<St(tX)>>))>>)),
   Work1("primary_location", L(<<N(1)>>)), Work1("primary_location", St(tX)),
   Work1("topics", N(5)), Work1("topics", L(<<N(1)>>)),
   Work1("grants", L(<<Null>>)), Work1("grants", St(tX)),
   Work1("abstract_inverted_index", St(tX)),
   Work1("abstract_inverted_index", L(<<N(1)>>)),
   Work1("abstract_inverted_index", D(<< <<"a", L(<<N(0)>>)>>, <<"b", L(<<N(-5)>>)>> >>)),
   Work1("counts_by_year", N(3)), Work1("open_access", B(TRUE))}

\* Works whose boolean fields hold b1 and b2, directly, inside an object and
\* inside the elements of a list.
BoolSource(b1, b2) ==
  D(<< <<"is_oa", B(b1)>>, <<"is_in_doaj", B(b2)>>,
       <<"is_indexed_in_scopus", B(b1)>>, <<"is_core", B(b2)>> >>)
BoolLoc(b1, b2) ==
  D(<< <<"is_oa", B(b1)>>, <<"is_accepted", B(b2)>>, <<"is_published", B(b1)>>,
       <<"source", BoolSource(b2, b1)>> >>)
BoolWork(b1, b2) ==
  D(<< <<"has_fulltext", B(b1)>>, <<"is_retracted", B(b2)>>, <<"is_paratext", B(b1)>>,
       <<"open_access", D(<< <<"is_oa", B(b2)>>,
                             <<"any_repository_has_fulltext", B(b1)>> >>)>>,
       <<"citation_normalized_percentile",
         D(<< <<"is_in_top_1_percent", B(b2)>>, <<"is_in_top_10_percent", B(b1)>> >>)>>,
       <<"primary_location", BoolLoc(b1, b2)>>,
       <<"best_oa_location", BoolLoc(b2, b1)>>,
       <<"locations", L(<<BoolLoc(b1, b2), D(<<>>), BoolLoc(b2, b2)>>)>>,
       <<"mesh", L(<<D(<< <<"is_major_topic", B(b1)>> >>),
                     D(<< <<"is_major_topic", B(b2)>> >>)>>)>>,
       <<"authorships", L(<<D(<< <<"is_corresponding", B(b1)>> >>),
                            D(<< <<"is_corresponding", B(b2)>> >>)>>)>> >>)
BoolWorks == {BoolWork(b1, b2) : b1 \in BOOLEAN, b2 \in BOOLEAN}

\* Works with every combination of an inverted index (absent, empty, with
\* text, with a term that lists no position, with the empty term only) and a
\* literal abstract (absent, a text to clean, blank).
AbstractIndexes ==
  {<<>>,
   << <<"abstract_inverted_index", D(<<>>)>> >>,
   << <<"abstract_inverted_index", D(<< <<"a", L(<<N(0), N(3)>>)>>, <<"b", L(<<N(1)>>)>> >>)>> >>,
   << <<"abstract_inverted_index", D(<< <<"a", L(<<>>)>> >>)>> >>,
   << <<"abstract_inverted_index", D(<< <<"", L(<<N(0)>>)>> >>)>> >>}
AbstractLiterals ==
  {<<>>,
   << <<"abstract", St(<<" ", "x", "\n", "\t", "y", " ">>)>> >>,
   << <<"abstract", St(<<" ">>)>> >>}
AbstractWorks == {D(i \o l) : i \in AbstractIndexes, l \in AbstractLiterals}

Works ==
  {WorkFull} \cup AuthorWorks \cup YearWorks \cup OddWorks \cup BadWorks
    \cup BoolWorks \cup AbstractWorks

\* What an array of the payload may hold: works, a work on which to_row
\* raises, and elements that are no objects.
ArrayElems ==
  {Work1("id", St(tW1)), Work1("title", St(tX)), Work1("ids", St(tX)), St(tX), Null}

Arrays == {L(xs) : xs \in SeqsUpTo(ArrayElems, MaxRecords)}

Envelopes ==
     {D(<< <<"meta", D(<< <<"count", N(2)>> >>)>>, <<"results", a>> >>) : a \in Arrays}
  \cup {D(<< <<"id", St(tW1)>>, <<"results", St(tX)>> >>),
        D(<< <<"id", St(tW1)>>, <<"results", Null>> >>)}

Scalars == {St(tX), N(7), B(TRUE), Null, NaN}

Payloads == Works \cup Arrays \cup Envelopes \cup Scalars

\* The input file: unreadable, not JSON, or a JSON document.
Inputs ==
  {[kind |-> "unreadable", doc |-> Null], [kind |-> "invalid", doc |-> Null]}
    \cup {[kind |-> "json", doc |-> p] : p \in Payloads}

(***************************************************************************)
(* One run of main()                                                       *)
(***************************************************************************)
VARIABLES
  pc,       \* where main() is
  input,    \* the file named by --json-in
  cfg,      \* the parsed arguments
  payload,  \* the decoded document
  dirMade,  \* the output directory was created by this run
  out,      \* the output file: [exists, open, lines]
  next,     \* how many works the generator has yielded
  work,     \* the work being processed
  row,      \* the dict to_row returned for it
  count,    \* the local variable count
  log,      \* the log file: [exists, path, cols, rows]
  arg,      \* the argument of a helper called on its own
  ret       \* what that call returned

vars == <<pc, input, cfg, payload, dirMade, out, next, work, row, count, log, arg, ret>>

NoRow == <<>>
NoFile == [exists |-> FALSE, open |-> FALSE, lines |-> <<>>]
NoLog == [exists |-> FALSE, path |-> "", cols |-> <<>>, rows |-> 0]

\* A line of the table: the header's cells are column names, a data row's
\* cells are texts.
HeaderLine == [i \in 1..Len(HEADER_COLS) |-> [t |-> "col", v |-> HEADER_COLS[i]]]
DataLine(cells) == [i \in 1..Len(cells) |-> St(cells[i])]

Init ==
  /\ pc = "start"
  /\ input \in Inputs
  /\ cfg \in Configs
  /\ payload = Null
  /\ dirMade = FALSE
  /\ out = NoFile
  /\ next = 0
  /\ work = Null
  /\ row = NoRow
  /\ count = 0
  /\ log = NoLog
  /\ arg = Null
  /\ ret = Null

ReadInputAfterMkdir ==
  /\ pc = "start"
  /\ dirMade' = TRUE
  /\ IF input.kind = "json"
     THEN pc' = "loaded" /\ payload' = input.doc
     ELSE pc' = "aborted" /\ UNCHANGED payload
  /\ UNCHANGED <<input, cfg, out, next, work, row, count, log, arg, ret>>

\* Lines 930-931: open and decode the input; an OSError or a JSONDecodeError
\* ends the run.
ReadInput ==
  /\ pc = "start"
  /\ IF input.kind = "json"
     THEN pc' = "loaded" /\ payload' = input.doc
     ELSE pc' = "aborted" /\ UNCHANGED payload
  /\ UNCHANGED <<input, cfg, dirMade, out, next, work, row, count, log, arg, ret>>

\* Lines 933-934: create the output directory.
MakeDir ==
  /\ pc = "loaded"
  /\ dirMade' = TRUE
  /\ pc' = "dir"
  /\ UNCHANGED <<input, cfg, payload, out, next, work, row, count, log, arg, ret>>

\* Lines 937-938: open the output file for writing.
OpenOut ==
  /\ pc = "dir"
  /\ out' = [exists |-> TRUE, open |-> TRUE, lines |-> <<>>]
  /\ pc' = "opened"
  /\ UNCHANGED <<input, cfg, payload, dirMade, next, work, row, count, log, arg, ret>>

WriteHeaderIfRecords ==
  /\ pc = "opened"
  /\ out' = [out EXCEPT !.lines =
               IF iter_works(payload) = <<>> THEN <<>> ELSE <<HeaderLine>>]
  /\ count' = 0
  /\ pc' = "iter"
  /\ UNCHANGED <<input, cfg, payload, dirMade, next, work, row, log, arg, ret>>

\* Lines 939-940: the header row, then count = 0.
WriteHeader ==
  /\ pc = "opened"
  /\ out' = [out EXCEPT !.lines = Append(out.lines, HeaderLine)]
  /\ count' = 0
  /\ pc' = "iter"
  /\ UNCHANGED <<input, cfg, payload, dirMade, next, work, row, log, arg, ret>>

\* Line 941: the generator yields the next work, or is exhausted and the
\* with-block closes the file.
NextWork ==
  /\ pc = "iter"
  /\ IF next < Len(iter_works(payload))
     THEN /\ next' = next + 1
          /\ work' = iter_works(payload)[next + 1]
          /\ pc' = "flatten"
          /\ UNCHANGED out
     ELSE /\ out' = [out EXCEPT !.open = FALSE]
          /\ pc' = "closed"
          /\ UNCHANGED <<next, work>>
  /\ UNCHANGED <<input, cfg, payload, dirMade, row, count, log, arg, ret>>

\* Flatten that absorbs an exception of to_row: the work is passed over and
\* the loop goes on.
Flatten_skips_failing ==
  /\ pc = "flatten"
  /\ IF raises_to_row(work)
     THEN /\ pc' = "iter"
          /\ UNCHANGED <<out, row>>
     ELSE /\ \E w \in {work}, c \in {cfg} :
               row' = to_row(w, c.list_sep, <<";", " ">>, c.bool_style,
                             c.cell_missing, c.token_missing)
          /\ pc' = "write"
          /\ UNCHANGED out
  /\ UNCHANGED <<input, cfg, payload, dirMade, next, work, count, log, arg, ret>>

\* Flatten with a row dict shared between calls: the dict filled for the
\* first work is handed back for the works after it.
Flatten_shared_row ==
  /\ pc = "flatten"
  /\ IF raises_to_row(work)
     THEN /\ pc' = "crashed"
          /\ out' = [out EXCEPT !.open = FALSE]
          /\ UNCHANGED row
     ELSE /\ \E w \in {work}, c \in {cfg} :
               row' = IF row # NoRow THEN row
                      ELSE to_row(w, c.list_sep, <<";", " ">>, c.bool_style,
                                  c.cell_missing, c.token_missing)
          /\ pc' = "write"
          /\ UNCHANGED out
  /\ UNCHANGED <<input, cfg, payload, dirMade, next, work, count, log, arg, ret>>

\* Lines 942-949: to_row on the work; an exception leaves the with-block,
\* which closes the file, and ends the run.
Flatten ==
  /\ pc = "flatten"
  /\ IF raises_to_row(work)
     THEN /\ pc' = "crashed"
          /\ out' = [out EXCEPT !.open = FALSE]
          /\ UNCHANGED row
     ELSE /\ \E w \in {work}, c \in {cfg} :
               row' = to_row(w, c.list_sep, <<";", " ">>, c.bool_style,
                             c.cell_missing, c.token_missing)
          /\ pc' = "write"
          /\ UNCHANGED out
  /\ UNCHANGED <<input, cfg, payload, dirMade, next, work, count, log, arg, ret>>

\* Lines 950-951: write the row and count it.
WriteRow ==
  /\ pc = "write"
  /\ out' = [out EXCEPT !.lines = Append(out.lines, DataLine(row_cells(row, cfg.cell_missing)))]
  /\ count' = count + 1
  /\ pc' = "iter"
  /\ UNCHANGED <<input, cfg, payload, dirMade, next, work, row, log, arg, ret>>

\* WriteLog writing the log only when --log-out was given.
WriteLog_only_if_configured ==
  /\ pc = "closed"
  /\ log' = IF cfg.log_out
            THEN [exists |-> TRUE, path |-> "log_out", cols |-> HEADER_COLS,
                  rows |-> count]
            ELSE log
  /\ pc' = "done"
  /\ UNCHANGED <<input, cfg, payload, dirMade, out, next, work, row, count, arg, ret>>

\* Lines 954-959: the log, at --log-out or beside the table.
WriteLog ==
  /\ pc = "closed"
  /\ log' = [exists |-> TRUE,
             path |-> IF cfg.log_out THEN "log_out" ELSE "output.log",
             cols |-> HEADER_COLS, rows |-> count]
  /\ pc' = "done"
  /\ UNCHANGED <<input, cfg, payload, dirMade, out, next, work, row, count, arg, ret>>

Next ==
  \/ ReadInput
  \/ MakeDir
  \/ OpenOut
  \/ WriteHeader
  \/ NextWork
  \/ Flatten
  \/ WriteRow
  \/ WriteLog

Spec == Init /\ [][Next]_vars

\* main() is straight-line code: a step that is possible is taken.  The
\* fairness leaves Flatten out, which assumes less than the program gives: what
\* holds under FairSpec holds as well when to_row is known to return.
FairSpec ==
  Spec /\ WF_vars(ReadInput \/ MakeDir \/ OpenOut \/ WriteHeader \/ NextWork
                    \/ WriteRow \/ WriteLog)

(***************************************************************************)
(* Properties of a run                                                     *)
(***************************************************************************)
\* The records of the input document, in the order of the input: the
\* document itself when it is an object without a `results` array, else the
\* object elements of the array or of `results`.
Records ==
  LET doc == input.doc
      objects(xs) == SelectSeq(xs, LAMBDA x : x.t = "dict")
  IN IF doc.t = "list" THEN objects(doc.v)
     ELSE IF doc.t # "dict" THEN <<>>
     ELSE IF \E i \in 1..Len(doc.v) : doc.v[i][1] = "results" /\ doc.v[i][2].t = "list"
          THEN objects(DGet(doc, "results").v)
          ELSE <<doc>>

\* The row main() writes for a work under the run's configuration.
RowLine(w) ==
  DataLine(row_cells(to_row(w, cfg.list_sep, <<";", " ">>, cfg.bool_style,
                            cfg.cell_missing, cfg.token_missing), cfg.cell_missing))

\* The data rows of the output file, without the header.
DataRows == IF Len(out.lines) = 0 THEN <<>> ELSE Tail(out.lines)

\* For each column of HEADER_COLS, the top-level key of the work that
\* to_row reads to fill it.
ColumnKey ==
  <<"id", "doi", "title", "display_name", "publication_year", "publication_date", "language",
    "type", "type_crossref", "indexed_in", "institution_assertions", "countries_distinct_count",
    "institutions_distinct_count", "corresponding_author_ids", "corresponding_institution_ids",
    "fwci", "has_fulltext", "fulltext_origin", "cited_by_count", "is_retracted", "is_paratext",
    "locations_count", "datasets", "versions", "referenced_works_count", "referenced_works",
    "related_works", "cited_by_api_url", "counts_by_year", "counts_by_year", "updated_date",
    "created_date", "ids", "ids", "ids", "ids", "ids", "primary_location", "primary_location",
    "primary_location", "primary_location", "primary_location", "primary_location",
    "primary_location", "primary_location", "primary_location", "primary_location",
    "primary_location", "primary_location", "primary_location", "primary_location",
    "primary_location", "primary_location", "primary_location", "primary_location",
    "primary_location", "primary_location", "primary_location", "open_access", "open_access",
    "open_access", "open_access", "apc_list", "apc_list", "apc_list", "apc_paid", "apc_paid",
    "apc_paid", "citation_normalized_percentile", "citation_normalized_percentile",
    "citation_normalized_percentile", "cited_by_percentile_year", "cited_by_percentile_year",
    "biblio", "biblio", "biblio", "biblio", "primary_topic", "primary_topic", "primary_topic",
    "primary_topic", "primary_topic", "primary_topic", "primary_topic", "primary_topic",
    "primary_topic", "best_oa_location", "best_oa_location", "best_oa_location",
    "best_oa_location", "best_oa_location", "best_oa_location", "best_oa_location",
    "best_oa_location", "best_oa_location", "best_oa_location", "best_oa_location",
    "best_oa_location", "best_oa_location", "best_oa_location", "best_oa_location",
    "best_oa_location", "best_oa_location", "best_oa_location", "best_oa_location",
    "best_oa_location", "best_oa_location", "abstract", "authorships", "authorships",
    "authorships", "authorships", "authorships", "authorships", "authorships", "authorships",
    "authorships", "authorships", "topics", "topics", "topics", "topics", "topics", "topics",
    "topics", "topics", "topics", "keywords", "keywords", "keywords", "concepts", "concepts",
    "concepts", "concepts", "concepts", "mesh", "mesh", "mesh", "mesh", "mesh", "locations",
    "locations", "locations", "locations", "locations", "locations", "locations", "locations",
    "locations", "locations", "locations", "locations", "locations", "locations", "locations",
    "locations", "locations", "locations", "locations", "locations", "locations",
    "sustainable_development_goals", "sustainable_development_goals",
    "sustainable_development_goals", "grants", "grants", "grants">>

\* Column i has no data in work w: its top-level key is absent or null (and,
\* for the abstract, the inverted index too), or it is a direct_map column
\* whose path leads to nothing.
NoData(w, i) ==
  \/ /\ DGet(w, ColumnKey[i]) = Null
     /\ HEADER_COLS[i] = "abstract" => DGet(w, "abstract_inverted_index") = Null
  \/ \E j \in 1..Len(direct_map) :
       direct_map[j][1] = HEADER_COLS[i] /\ get(w, direct_map[j][2]) = Null

PastHeader == pc \in {"iter", "flatten", "write", "closed", "done", "crashed"}

\* C1: on every run past input decoding, once the header is written the
\* first line of the output file is HEADER_COLS in its order (167 columns
\* from "id" to "grants.award_id"), the data rows come after it, and a run
\* that yields no record ends with the header as the only line.
C1_HeaderFirst ==
  /\ Len(HEADER_COLS) = 167
  /\ HEADER_COLS[1] = "id" /\ HEADER_COLS[167] = "grants.award_id"
  /\ Len(HeaderLine) = 167
  /\ PastHeader =>
       /\ Len(out.lines) = 1 + count
       /\ out.lines[1] = HeaderLine
       /\ \A k \in 2..Len(out.lines) : out.lines[k] # HeaderLine
  /\ ~PastHeader => out.lines = <<>>
  /\ (pc = "done" /\ Records = <<>>) => out.lines = <<HeaderLine>>

C1_HeaderOnly ==
  pc = "done" /\ input.kind = "json" /\ Records = <<>> /\ out.lines = <<HeaderLine>>

\* C2: every data row has one text cell per column of HEADER_COLS, and a
\* column for which the record has no data holds cell_missing.
C2_RowShape ==
  \A k \in 1..Len(DataRows) :
    /\ Len(DataRows[k]) = Len(HEADER_COLS)
    /\ \A i \in 1..Len(HEADER_COLS) :
         /\ DataRows[k][i].t = "str"
         /\ NoData(Records[k], i) => DataRows[k][i] = St(cfg.cell_missing)

C2_SparseRow ==
  /\ Len(DataRows) >= 1
  /\ cfg.cell_missing = tNA
  /\ \E i, j \in 1..Len(HEADER_COLS) :
       /\ NoData(Records[1], i) /\ DataRows[1][i] = St(tNA)
       /\ ~NoData(Records[1], j) /\ DataRows[1][j] # St(tNA)

\* C3: at the end of a run the number of data rows is the number of works
\* iter_works yields.
C3_RowCount ==
  /\ input.kind = "json" => iter_works(input.doc) = Records
  /\ pc \in {"done", "crashed"} => Len(DataRows) = Len(iter_works(input.doc))

\* C4: the data rows are the rows of the first works yielded, in the order
\* of the input, and a work is flattened only when the rows of all the works
\* before it are written.
C4_InputOrder ==
  /\ count = Len(DataRows) \/ ~PastHeader
  /\ count <= next /\ next <= count + 1
  /\ pc \in {"flatten", "write"} => next = count + 1 /\ work = Records[next]
  /\ pc \in {"iter", "closed", "done"} => next = count
  /\ \A k \in 1..Len(DataRows) : DataRows[k] = RowLine(Records[k])

C4_SecondAfterFirst ==
  /\ pc = "flatten" /\ next = 2 /\ Len(DataRows) = 1
  /\ ~raises_to_row(Records[2])
  /\ RowLine(Records[1]) # RowLine(Records[2])

\* C5: when the input cannot be read or is not JSON the run ends with no
\* output directory, no output file, no header and no log.
C5_AbortBeforeOutput ==
  input.kind # "json" =>
    /\ pc \in {"start", "aborted"}
    /\ ~dirMade
    /\ out = NoFile
    /\ log = NoLog

C5_Aborted == pc = "aborted" /\ input.kind \in {"unreadable", "invalid"}

\* C6: to_row raises on no work, whatever the types of its fields, and the
\* run ends with a row for every work.
C6_NeverRaises ==
  /\ pc # "crashed"
  /\ pc = "flatten" => ~raises_to_row(work)

IsScalar(x) == ~IsDict(x) /\ ~IsList(x)

\* C7: with a payload that is neither an object nor an array no work is
\* yielded, the run never fails, and it ends with the header as the only
\* line and a log of 0 rows.
C7_ScalarPayload ==
  /\ [](input.kind = "json" /\ IsScalar(input.doc) =>
          /\ iter_works(input.doc) = <<>>
          /\ pc \notin {"flatten", "write", "crashed", "aborted"}
          /\ count = 0
          /\ pc = "done" => out = [exists |-> TRUE, open |-> FALSE, lines |-> <<HeaderLine>>]
                              /\ log.exists /\ log.rows = 0)
  /\ (input.kind = "json" /\ IsScalar(input.doc)) ~> (pc = "done")

C7_ScalarDone ==
  pc = "done" /\ input.kind = "json" /\ IsScalar(input.doc) /\ log.rows = 0

(***************************************************************************)
(* Properties of the row of one work (pc = "write": row = to_row(work))    *)
(***************************************************************************)
\* The text written for column col of the row.
Cell(col) == CsvText(row[col])

\* The tokens of a list cell.
Tokens(col) == Split(Cell(col), cfg.list_sep)

Authors == Elems(work, "authorships")

AuthorshipCols ==
  {"authorships.author_position", "authorships.institutions", "authorships.countries",
   "authorships.is_corresponding", "authorships.raw_author_name",
   "authorships.raw_affiliation_strings", "authorships.affiliations",
   "authorships.author.id", "authorships.author.display_name",
   "authorships.author.orcid"}

\* C8: for a work with n >= 1 authorship entries each of the ten
\* authorships.* cells has exactly n tokens.
C8_AuthorTokens ==
  (pc = "write" /\ Len(Authors) >= 1) =>
    \A c \in AuthorshipCols : Len(Tokens(c)) = Len(Authors)

\* Author a has entities under key ("institutions" or "affiliations").
HasEntities(a, key) == IsList(DGet(a, key)) /\ DGet(a, key).v # <<>>

\* The entities of author a under key, formatted and joined by "; ".
EntitiesText(a, key) ==
  LET its == DGet(a, key).v
  IN Join([j \in 1..Len(its) |->
             IF key = "institutions" THEN fmt_institution_entry(its[j])
             ELSE fmt_affiliation_entry(its[j])], <<";", " ">>)

EntityTokensAligned(col, key) ==
  (Len(Authors) >= 1 /\ \E i \in 1..Len(Authors) : HasEntities(Authors[i], key)) =>
    /\ Len(Tokens(col)) = Len(Authors)
    /\ \A i \in 1..Len(Authors) :
         /\ (Tokens(col)[i] = cfg.token_missing) <=> ~HasEntities(Authors[i], key)
         /\ HasEntities(Authors[i], key) =>
              Tokens(col)[i] = EntitiesText(Authors[i], key)

\* C9: when at least one of the n authors has institutions, the cell
\* authorships.institutions has n tokens, token i is token_missing exactly
\* when author i has none, and otherwise is the author's formatted
\* institutions joined by "; "; likewise for authorships.affiliations.
C9_EntityTokens ==
  pc = "write" =>
    /\ EntityTokensAligned("authorships.institutions", "institutions")
    /\ EntityTokensAligned("authorships.affiliations", "affiliations")

C9_SecondAuthorWithout ==
  /\ pc = "write" /\ Len(Authors) = 2
  /\ HasEntities(Authors[1], "institutions") /\ Len(DGet(Authors[1], "institutions").v) = 2
  /\ ~HasEntities(Authors[2], "institutions")
  /\ Tokens("authorships.institutions") =
       <<EntitiesText(Authors[1], "institutions"), cfg.token_missing>>
  /\ HasEntities(Authors[1], "affiliations") /\ ~HasEntities(Authors[2], "affiliations")
  /\ Len(Tokens("authorships.affiliations")) = 2

\* The object elements of counts_by_year.
YearEntries == SelectSeq(Elems(work, "counts_by_year"), IsDict)

\* The token of a value in a list cell: token_missing for null or blank.
TokenOf(x) ==
  IF x = Null \/ Strip(PyStr(x)) = <<>> THEN cfg.token_missing ELSE Strip(PyStr(x))

\* C10: the cells counts_by_year.year and counts_by_year.cited_by_count
\* have one token per element of counts_by_year, token i of each taken from
\* element i, token_missing where the element has no value.
C10_YearsParallel ==
  (pc = "write" /\ Len(YearEntries) >= 1) =>
    /\ Len(Tokens("counts_by_year.year")) = Len(Tokens("counts_by_year.cited_by_count"))
    /\ Tokens("counts_by_year.year") =
         [i \in 1..Len(YearEntries) |-> TokenOf(DGet(YearEntries[i], "year"))]
    /\ Tokens("counts_by_year.cited_by_count") =
         [i \in 1..Len(YearEntries) |-> TokenOf(DGet(YearEntries[i], "cited_by_count"))]

(***************************************************************************)
(* One call of a helper on its own                                         *)
(***************************************************************************)
MaxItems == 3

\* The elements a sequence passed to join_list is made of: texts with and
\* without surrounding whitespace, a text that spells a marker, a number,
\* and the three kinds of element without data.
ItemPool ==
  {St(<<"A">>), St(<<" ", "B", " ">>), St(tNA), N(7), Null, St(<<>>),
   St(<<" ">>)}
ItemLists == {Null} \cup {L(q) : q \in SeqsUpTo(ItemPool, MaxItems)}

\* The separator and the markers of a call.
CallConfigs == {c \in Configs : c.bool_style = "en" /\ ~c.log_out}

Returned(v) == [raised |-> FALSE, v |-> v]
Raised == [raised |-> TRUE, v |-> Null]

\* Lists with elements without data at the front, in the middle, at the end
\* and everywhere, and the works that carry two of them in every list field
\* that is joined, directly or inside the entries of a list.
HoleLists ==
  {L(<<>>), L(<<Null>>), L(<<St(<<>>), St(<<"A">>)>>),
   L(<<St(<<"A">>), St(<<" ">>), St(<<"B">>)>>), L(<<St(<<"A">>), Null>>)}
HoleWork(h1, h2) ==
  D(<< <<"language", h1>>, <<"indexed_in", h1>>, <<"referenced_works", h2>>,
       <<"related_works", h1>>, <<"corresponding_author_ids", h2>>,
       <<"corresponding_institution_ids", h1>>,
       <<"primary_location", D(<< <<"source", D(<< <<"issn", h1>>,
            <<"host_organization_lineage", h2>>,
            <<"host_organization_lineage_names", h1>> >>)>> >>)>>,
       <<"best_oa_location", D(<< <<"license", St(<<>>)>>, <<"source", D(<< <<"issn", h2>>,
            <<"host_organization_lineage", h1>>,
            <<"host_organization_lineage_names", h2>> >>)>> >>)>>,
       <<"authorships",
         L(<<D(<< <<"countries", h1>>, <<"raw_affiliation_strings", h1>>,
                  <<"raw_author_name", St(<<" ">>)>>, <<"author_position", St(<<>>)>> >>),
             D(<< <<"countries", h2>>, <<"raw_affiliation_strings", h2>>,
                  <<"author", D(<< <<"id", St(<<"A">>)>>, <<"orcid", St(<<>>)>> >>)>> >>)>>)>>,
       <<"locations",
         L(<<D(<< <<"license", St(<<>>)>>, <<"version", St(<<" ">>)>>,
                  <<"source", D(<< <<"issn", h1>>, <<"issn_l", St(<<>>)>>,
                       <<"host_organization_lineage", h1>>,
                       <<"host_organization_lineage_names", h2>> >>)>> >>),
             D(<< <<"landing_page_url", St(<<"A">>)>>,
                  <<"source", D(<< <<"issn", h2>>, <<"id", St(<<"B">>)>>,
                       <<"host_organization_lineage", h2>>,
                       <<"host_organization_lineage_names", h1>> >>)>> >>),
             D(<<>>)>>)>>,
       <<"topics", L(<<D(<< <<"id", St(<<>>)>> >>), D(<< <<"id", St(<<"A">>)>> >>)>>)>>,
       <<"keywords", L(<<D(<< <<"id", St(<<"A">>)>> >>), D(<< <<"id", St(<<" ">>)>> >>)>>)>>,
       <<"mesh", L(<<D(<<>>), D(<< <<"descriptor_ui", St(<<"A">>)>> >>), D(<<>>)>>)>>,
       <<"counts_by_year", L(<<D(<< <<"year", Null>>, <<"cited_by_count", N(1)>> >>),
                               D(<< <<"year", N(2020)>> >>)>>)>>,
       <<"grants", L(<<D(<< <<"award_id", St(<<>>)>> >>),
                       D(<< <<"funder", St(<<"A">>)>> >>)>>)>> >>)

\* A work whose title, doi, ids.doi and first grant's award_id and funder are
\* v, with a second grant that has an award_id when more is true.
BlankWork(v, more) ==
  D(<< <<"title", v>>, <<"doi", v>>, <<"ids", D(<< <<"doi", v>> >>)>>,
       <<"grants",
         L(<<D(<< <<"funder", v>>, <<"award_id", v>> >>)>>
           \o (IF more THEN <<D(<< <<"award_id", St(<<"a", "7">>)>> >>)>> ELSE <<>>))>> >>)

\* The works to_row is called on: the works of the payloads, the works with
\* lists of elements without data, and the works with an empty string or null
\* in a scalar field and in a grant.
RowWorks ==
  Works \cup {HoleWork(h1, h2) : h1 \in HoleLists, h2 \in HoleLists}
        \cup {BlankWork(v, more) : v \in {St(<<>>), Null}, more \in BOOLEAN}

\* The values of a location field: none (the key is absent), null, the empty
\* object, and populated objects: full, with a null or empty source, with
\* booleans, with lists of elements without data in the source, with empty
\* and non-text scalars, and with a source that is not an object.
LocationValues ==
  {<<>>, <<Null>>, <<D(<<>>)>>, <<Loc1>>, <<Loc2>>,
   <<D(<< <<"pdf_url", St(tU)>>, <<"source", D(<<>>)>> >>)>>,
   <<D(<< <<"is_oa", Null>>, <<"landing_page_url", St(<<>>)>>, <<"pdf_url", N(0)>>,
          <<"license", N(5)>>, <<"license_id", St(<<" ">>)>>, <<"version", B(FALSE)>>,
          <<"is_accepted", St(tX)>>, <<"is_published", N(1)>>,
          <<"source", D(<< <<"id", N(0)>>, <<"display_name", St(<<>>)>>,
                           <<"issn_l", L(<<>>)>>, <<"issn", Null>>, <<"is_oa", N(0)>>,
                           <<"is_core", St(<<>>)>>, <<"host_organization", Null>>,
                           <<"type", N(7)>> >>)>> >>)>>,
   <<D(<< <<"source", St(tX)>> >>)>>}
  \cup {<<BoolLoc(b1, b2)>> : b1 \in BOOLEAN, b2 \in BOOLEAN}
  \cup {<<D(<< <<"source", D(<< <<"issn", h1>>, <<"host_organization_lineage", h2>>,
                                <<"host_organization_lineage_names", h1>> >>)>> >>)>> :
          h1 \in HoleLists, h2 \in HoleLists}

MaxPositions == 2

\* The positions a term of an inverted index may list: a run from 0, a
\* position after a gap, and two negative ones.
PosPool == {N(0), N(1), N(3), N(-1), N(-4)}
PosLists == {L(q) : q \in SeqsUpTo(PosPool, MaxPositions)}

\* An inverted index: the terms A and b, each absent or with a list of
\* positions, then possibly a third entry: a term at position 2, the empty
\* term at position 2, a term with no position, a term with null for a list.
TermEntries(t) == {<<>>} \cup {<< <<t, ps>> >> : ps \in PosLists}
LastEntries ==
  {<<>>, << <<"c", L(<<N(2)>>)>> >>, << <<"", L(<<N(2)>>)>> >>,
   << <<"c", L(<<>>)>> >>, << <<"c", Null>> >>}
Indexes ==
  {Null} \cup {D(a \o b \o c) : a \in TermEntries("A"), b \in TermEntries("b"),
                                c \in LastEntries}

\* The options of main() left at their defaults.
DefaultConfig ==
  [list_sep |-> <<"|">>, bool_style |-> "en", cell_missing |-> <<>>,
   token_missing |-> tNone, log_out |-> FALSE]

InitCall ==
  /\ pc = "call"
  /\ \/ arg \in [f : {"join_list"}, x : ItemLists] /\ cfg \in CallConfigs
     \/ arg \in [f : {"rebuild_abstract"}, x : Indexes] /\ cfg = DefaultConfig
     \/ arg \in [f : {"to_row"}, x : RowWorks] /\ cfg \in CallConfigs
     \/ /\ arg \in [f : {"location_blocks"}, x : LocationValues]
        /\ cfg \in {c \in Configs : ~c.log_out}
  /\ ret = Null
  /\ input = [kind |-> "none", doc |-> Null]
  /\ payload = Null
  /\ dirMade = FALSE
  /\ out = NoFile
  /\ next = 0
  /\ work = Null
  /\ row = NoRow
  /\ count = 0
  /\ log = NoLog

\* join_list(arg.x, cfg.list_sep, cfg.cell_missing, cfg.token_missing)
CallJoinList ==
  /\ pc = "call"
  /\ arg.f = "join_list"
  /\ ret' = Returned(St(join_list(arg.x, cfg.list_sep, cfg.cell_missing,
                                  cfg.token_missing)))
  /\ pc' = "returned"
  /\ UNCHANGED <<input, cfg, payload, dirMade, out, next, work, row, count,
                 log, arg>>

\* rebuild_abstract(arg.x)
CallRebuildAbstract ==
  /\ pc = "call"
  /\ arg.f = "rebuild_abstract"
  /\ ret' = IF raises_rebuild_abstract(arg.x) THEN Raised
            ELSE Returned(rebuild_abstract(arg.x))
  /\ pc' = "returned"
  /\ UNCHANGED <<input, cfg, payload, dirMade, out, next, work, row, count,
                 log, arg>>

\* to_row(arg.x, cfg.list_sep, "; ", cfg.bool_style, cfg.cell_missing,
\* cfg.token_missing)
CallToRow ==
  /\ pc = "call"
  /\ arg.f = "to_row"
  /\ ret' = IF raises_to_row(arg.x) THEN Raised
            ELSE Returned(to_row(arg.x, cfg.list_sep, <<";", " ">>, cfg.bool_style,
                                 cfg.cell_missing, cfg.token_missing))
  /\ pc' = "returned"
  /\ UNCHANGED <<input, cfg, payload, dirMade, out, next, work, row, count,
                 log, arg>>

\* to_row on the record whose only key is primary_location and on the record
\* whose only key is best_oa_location, both with the value arg.x (no key when
\* arg.x is empty).
CallLocationBlocks ==
  LET rec(k) == D([i \in 1..Len(arg.x) |-> <<k, arg.x[i]>>])
      call(k) == to_row(rec(k), cfg.list_sep, <<";", " ">>, cfg.bool_style,
                        cfg.cell_missing, cfg.token_missing)
  IN /\ pc = "call"
     /\ arg.f = "location_blocks"
     /\ ret' = IF raises_to_row(rec("primary_location"))
                  \/ raises_to_row(rec("best_oa_location"))
               THEN Raised
               ELSE Returned(<<call("primary_location"), call("best_oa_location")>>)
     /\ pc' = "returned"
     /\ UNCHANGED <<input, cfg, payload, dirMade, out, next, work, row, count, log, arg>>

NextCall == CallJoinList \/ CallRebuildAbstract \/ CallToRow \/ CallLocationBlocks

CallSpec == InitCall /\ [][NextCall]_vars

\* The elements of the sequence join_list was called on.
CallItems == IF arg.x.t = "null" THEN <<>> ELSE arg.x.v

\* Element x carries data: it is not null and its text is not blank.
CarriesData(x) ==
  /\ x.t # "null"
  /\ \E i \in 1..Len(PyStr(x)) : PyStr(x)[i] \notin WS

JoinListReturned == pc = "returned" /\ arg.f = "join_list"

C12_AllMissingOneMarker ==
  ( /\ JoinListReturned
    /\ Len(CallItems) > 0
    /\ \A i \in 1..Len(CallItems) : ~CarriesData(CallItems[i]) )
  => ret.v = St(cfg.token_missing)

C12_ThreeMissing ==
  /\ JoinListReturned
  /\ arg.x = L(<<Null, St(<<>>), St(<<" ">>)>>)
  /\ cfg.token_missing = tNone
  /\ ret.v = St(tNone)

\* Token i of the claim: the trimmed text of element i, or the per-token
\* marker when element i carries no data.
ExpectedToken(x) == IF CarriesData(x) THEN Strip(PyStr(x)) ELSE cfg.token_missing
ExpectedTokens == [i \in 1..Len(CallItems) |-> ExpectedToken(CallItems[i])]

\* C13: a sequence of length n with at least one element carrying data is
\* rendered as n tokens joined by the separator, in input order, token i
\* being the trimmed text of element i or the per-token marker.
C13_TokenPerElement ==
  ( /\ JoinListReturned
    /\ \E i \in 1..Len(CallItems) : CarriesData(CallItems[i]) )
  => ret.v = St(Join(ExpectedTokens, cfg.list_sep))

\* The text of boolean b under the configured style.
BoolText(b) ==
  IF cfg.bool_style = "fr" THEN (IF b THEN tVrai ELSE tFaux)
  ELSE (IF b THEN tTrue ELSE tFalse)

\* The value found in x by following the keys of path through objects;
\* null when a key is absent or the value on the way is no object.
RECURSIVE At(_, _)
At(x, path) ==
  IF path = <<>> THEN x
  ELSE IF IsDict(x) THEN At(DGet(x, Head(path)), Tail(path))
  ELSE Null

\* The boolean columns of one value: <<column, path in the work>>.
ScalarBoolCols ==
  {<<"has_fulltext", <<"has_fulltext">> >>,
   <<"is_retracted", <<"is_retracted">> >>,
   <<"is_paratext", <<"is_paratext">> >>,
   <<"open_access.is_oa", <<"open_access", "is_oa">> >>,
   <<"open_access.any_repository_has_fulltext",
     <<"open_access", "any_repository_has_fulltext">> >>,
   <<"citation_normalized_percentile.is_in_top_1_percent",
     <<"citation_normalized_percentile", "is_in_top_1_percent">> >>,
   <<"citation_normalized_percentile.is_in_top_10_percent",
     <<"citation_normalized_percentile", "is_in_top_10_percent">> >>,
   <<"primary_location.is_oa", <<"primary_location", "is_oa">> >>,
   <<"primary_location.is_accepted", <<"primary_location", "is_accepted">> >>,
   <<"primary_location.is_published", <<"primary_location", "is_published">> >>,
   <<"primary_location.source.is_oa", <<"primary_location", "source", "is_oa">> >>,
   <<"primary_location.source.is_in_doaj",
     <<"primary_location", "source", "is_in_doaj">> >>,
   <<"primary_location.source.is_indexed_in_scopus",
     <<"primary_location", "source", "is_indexed_in_scopus">> >>,
   <<"primary_location.source.is_core", <<"primary_location", "source", "is_core">> >>,
   <<"best_oa_location.is_oa", <<"best_oa_location", "is_oa">> >>,
   <<"best_oa_location.is_accepted", <<"best_oa_location", "is_accepted">> >>,
   <<"best_oa_location.is_published", <<"best_oa_location", "is_published">> >>,
   <<"best_oa_location.source.is_oa", <<"best_oa_location", "source", "is_oa">> >>,
   <<"best_oa_location.source.is_in_doaj",
     <<"best_oa_location", "source", "is_in_doaj">> >>,
   <<"best_oa_location.source.is_indexed_in_scopus",
     <<"best_oa_location", "source", "is_indexed_in_scopus">> >>,
   <<"best_oa_location.source.is_core", <<"best_oa_location", "source", "is_core">> >>}

\* The boolean columns of a list: <<column, list field, path in an element>>.
ListBoolCols ==
  {<<"authorships.is_corresponding", "authorships", <<"is_corresponding">> >>,
   <<"mesh.is_major_topic", "mesh", <<"is_major_topic">> >>,
   <<"locations.is_oa", "locations", <<"is_oa">> >>,
   <<"locations.is_accepted", "locations", <<"is_accepted">> >>,
   <<"locations.is_published", "locations", <<"is_published">> >>,
   <<"locations.source.is_oa", "locations", <<"source", "is_oa">> >>,
   <<"locations.source.is_in_doaj", "locations", <<"source", "is_in_doaj">> >>,
   <<"locations.source.is_indexed_in_scopus", "locations",
     <<"source", "is_indexed_in_scopus">> >>,
   <<"locations.source.is_core", "locations", <<"source", "is_core">> >>}

\* The elements of list field f of the work being written.
ListField(f) ==
  IF IsDict(work) /\ IsList(DGet(work, f)) THEN DGet(work, f).v ELSE <<>>

\* C14: a boolean field value is rendered by the boolean style alone, True or
\* False under en and Vrai or Faux under fr, in the cell of a scalar column
\* and in its token of a list column; false is never rendered as a marker.
C14_BoolByStyle ==
  pc = "write" =>
    /\ \A c \in ScalarBoolCols :
         IsBool(At(work, c[2])) => Cell(c[1]) = BoolText(At(work, c[2]).v)
    /\ \A c \in ListBoolCols :
         (\E i \in 1..Len(ListField(c[2])) : IsBool(At(ListField(c[2])[i], c[3])))
         => /\ Len(Tokens(c[1])) = Len(ListField(c[2]))
            /\ \A i \in 1..Len(ListField(c[2])) :
                 IsBool(At(ListField(c[2])[i], c[3]))
                 => Tokens(c[1])[i] = BoolText(At(ListField(c[2])[i], c[3]).v)

C14_FalseAsFaux ==
  /\ pc = "write"
  /\ work = BoolWork(FALSE, TRUE)
  /\ cfg.bool_style = "fr"
  /\ cfg.list_sep = <<"|">>
  /\ Cell("has_fulltext") = tFaux
  /\ Cell("open_access.is_oa") = tVrai
  /\ Cell("mesh.is_major_topic") = tFaux \o <<"|">> \o tVrai
  /\ Cell("authorships.is_corresponding") = tFaux \o <<"|">> \o tVrai

RebuildReturned == pc = "returned" /\ arg.f = "rebuild_abstract"

\* The entries of the index rebuild_abstract was called on.
Entries == IF arg.x.t = "dict" THEN arg.x.v ELSE <<>>

\* The positions entry e lists, when its value is a list.
PosOf(e) == IF e[2].t = "list" THEN {e[2].v[j].v : j \in 1..Len(e[2].v)} ELSE {}
AllPos(es) == UNION {PosOf(es[i]) : i \in 1..Len(es)}

\* The entries es make a well-formed index: every entry has a list of
\* non-negative positions, some position is listed, and no position is listed
\* under two terms.
WellFormed(es) ==
  /\ \A i \in 1..Len(es) : es[i][2].t = "list"
  /\ AllPos(es) # {}
  /\ \A p \in AllPos(es) : p >= 0
  /\ \A i, j \in 1..Len(es) : i # j => PosOf(es[i]) \cap PosOf(es[j]) = {}

MaxOf(S) == CHOOSE m \in S : \A p \in S : p <= m

\* The term listed at position p, "" when no term lists it.
SlotWord(es, p) ==
  IF \E i \in 1..Len(es) : p \in PosOf(es[i])
  THEN es[CHOOSE i \in 1..Len(es) : p \in PosOf(es[i])][1]
  ELSE ""
SlotWords(es) == [k \in 1..(MaxOf(AllPos(es)) + 1) |-> SlotWord(es, k - 1)]

RECURSIVE Spaced(_)
Spaced(ws) ==
  IF Len(ws) <= 1 THEN ws ELSE <<Head(ws), " ">> \o Spaced(Tail(ws))

\* The text of a well-formed index: its non-empty slots, in slot order,
\* separated by single spaces.
SlotsText(es) == Spaced(SelectSeq(SlotWords(es), LAMBDA w : w # ""))

\* C15: for an inverted index with non-negative positions the text is built
\* from max position + 1 slots, each term placed at every position listed for
\* it, the non-empty slots joined by single spaces; a gap contributes nothing.
C15_SlotsJoined ==
  (RebuildReturned /\ WellFormed(Entries)) => ret = Returned(St(SlotsText(Entries)))

C15_GapAndRepeat ==
  /\ RebuildReturned
  /\ arg.x = D(<< <<"A", L(<<N(0), N(3)>>)>>, <<"b", L(<<N(1)>>)>> >>)
  /\ ret = Returned(St(<<"A", " ", "b", " ", "A">>))

\* C16: rebuild_abstract does not fail on an index whose entries are lists of
\* integers, whatever the positions, negative ones included.
C16_NeverFails ==
  (RebuildReturned /\ \A i \in 1..Len(Entries) : Entries[i][2].t = "list")
  => ~ret.raised

C18_LogAfterTable ==
  /\ [](log.exists =>
          /\ pc = "done"
          /\ out.exists /\ ~out.open
          /\ log.cols = HEADER_COLS
          /\ log.rows = Len(DataRows)
          /\ log.path = IF cfg.log_out THEN "log_out" ELSE "output.log")
  /\ (pc = "closed") ~> (pc = "done" /\ log.exists)

C18_DefaultLog ==
  /\ pc = "done"
  /\ ~cfg.log_out
  /\ log.exists /\ log.path = "output.log"
  /\ Len(DataRows) = 2 /\ log.rows = 2

\* The sub-fields of an authorship entry the claim names: <<column, path>>.
AuthorSubFields ==
  {<<"authorships.is_corresponding", <<"is_corresponding">> >>,
   <<"authorships.raw_author_name", <<"raw_author_name">> >>,
   <<"authorships.countries", <<"countries">> >>,
   <<"authorships.raw_affiliation_strings", <<"raw_affiliation_strings">> >>,
   <<"authorships.author.id", <<"author", "id">> >>,
   <<"authorships.author.display_name", <<"author", "display_name">> >>,
   <<"authorships.author.orcid", <<"author", "orcid">> >>,
   <<"authorships.author_position", <<"author_position">> >>}

\* Author a carries the sub-field at path; author a lacks it.
CarriesSubField(a, path) == At(a, path) \notin {Null, St(<<>>), L(<<>>)}
LacksSubField(a, path) == At(a, path) = Null

\* C19: when at least one author carries a sub-field and author i lacks it,
\* slot i of the sub-field's column is the per-token marker, under every
\* configuration.
C19_MissingSlotIsTokenMarker ==
  pc = "write" =>
    \A c \in AuthorSubFields :
      (\E j \in 1..Len(Authors) : CarriesSubField(Authors[j], c[2]))
      => \A i \in 1..Len(Authors) :
           LacksSubField(Authors[i], c[2])
           => /\ i <= Len(Tokens(c[1]))
              /\ Tokens(c[1])[i] = cfg.token_missing

\* The inverted index and the literal abstract of the work being written.
WorkIndex == IF IsDict(work) THEN DGet(work, "abstract_inverted_index") ELSE Null
WorkAbstract == IF IsDict(work) THEN DGet(work, "abstract") ELSE Null

\* The index is present and non-empty.
IndexPresent == IsDict(WorkIndex) /\ WorkIndex.v # <<>>

\* The index yields a text: it is well formed and some slot is not empty.
IndexYieldsText ==
  IndexPresent /\ WellFormed(WorkIndex.v) /\ SlotsText(WorkIndex.v) # <<>>

\* The index yields nothing: it is absent, null or empty, or its terms list
\* no position, or all its slots are empty.
IndexYieldsNothing ==
  \/ WorkIndex \in {Null, D(<<>>)}
  \/ /\ IndexPresent
     /\ \A i \in 1..Len(WorkIndex.v) : WorkIndex.v[i][2].t = "list"
     /\ \/ AllPos(WorkIndex.v) = {}
        \/ WellFormed(WorkIndex.v) /\ SlotsText(WorkIndex.v) = <<>>

\* The cell made of text t: whitespace runs collapsed, ends trimmed.
CleanCell(t) == clean_text(St(t)).v

ToRowReturned == pc = "returned" /\ arg.f = "to_row" /\ ~ret.raised

\* The text of column col in the row returned, and its tokens.
RetCell(col) == CsvText(ret.v[col])
RetTokens(col) == Split(RetCell(col), cfg.list_sep)

\* The columns whose cell is made by join_list whatever the work.
JoinedCols ==
  {"indexed_in", "corresponding_author_ids", "corresponding_institution_ids",
   "referenced_works", "related_works", "counts_by_year.year",
   "counts_by_year.cited_by_count", "primary_location.source.issn",
   "primary_location.source.host_organization_lineage",
   "primary_location.source.host_organization_lineage_names",
   "best_oa_location.source.issn",
   "best_oa_location.source.host_organization_lineage",
   "best_oa_location.source.host_organization_lineage_names",
   "authorships.author_position", "authorships.institutions",
   "authorships.countries", "authorships.is_corresponding",
   "authorships.raw_author_name", "authorships.raw_affiliation_strings",
   "authorships.affiliations", "authorships.author.id",
   "authorships.author.display_name", "authorships.author.orcid", "topics.id",
   "topics.display_name", "topics.score", "topics.subfield.id",
   "topics.subfield.display_name", "topics.field.id", "topics.field.display_name",
   "topics.domain.id", "topics.domain.display_name", "keywords.id",
   "keywords.display_name", "keywords.score", "concepts.id", "concepts.wikidata",
   "concepts.display_name", "concepts.level", "concepts.score",
   "mesh.descriptor_ui", "mesh.descriptor_name", "mesh.qualifier_ui",
   "mesh.qualifier_name", "mesh.is_major_topic", "locations.is_oa",
   "locations.landing_page_url", "locations.pdf_url", "locations.license",
   "locations.license_id", "locations.version", "locations.is_accepted",
   "locations.is_published", "locations.source.id", "locations.source.display_name",
   "locations.source.issn_l", "locations.source.issn", "locations.source.is_oa",
   "locations.source.is_in_doaj", "locations.source.is_indexed_in_scopus",
   "locations.source.is_core", "locations.source.host_organization",
   "locations.source.host_organization_name",
   "locations.source.host_organization_lineage",
   "locations.source.host_organization_lineage_names", "locations.source.type",
   "sustainable_development_goals.id", "sustainable_development_goals.display_name",
   "sustainable_development_goals.score", "grants.funder",
   "grants.funder_display_name", "grants.award_id"}

\* The columns of a row that are list-joined for work w: the columns above
\* and every directly mapped column whose value in w is a list.
ListJoinedCols(w) ==
  JoinedCols \cup {direct_map[i][1] : i \in {j \in 1..Len(direct_map) :
                                               IsList(At(w, direct_map[j][2]))}}

\* C21: with a non-empty per-token marker, no list-joined cell of a row has
\* an empty token when split on the list separator: the cell is the
\* whole-cell marker or all its tokens are non-empty, nested joins included.
C21_NoEmptyToken ==
  ToRowReturned =>
    \A c \in ListJoinedCols(arg.x) :
      \/ RetCell(c) = cfg.cell_missing
      \/ \A i \in 1..Len(RetTokens(c)) : RetTokens(c)[i] # <<>>

C21_HolesFilled ==
  /\ ToRowReturned
  /\ arg.x = HoleWork(L(<<St(<<>>), St(<<"A">>)>>), L(<<St(<<"A">>), Null>>))
  /\ cfg.list_sep = <<"|">> /\ cfg.token_missing = tNone /\ cfg.cell_missing = <<>>
  /\ RetCell("indexed_in") = tNone \o <<"|", "A">>
  /\ RetCell("authorships.countries") = tNone \o <<"|", "A", "|", "A", "|">> \o tNone
  /\ RetCell("language") = tNone \o <<"|", "A">>

\* The names of the Column Schema.
SchemaCols == {HEADER_COLS[i] : i \in 1..Len(HEADER_COLS)}

\* C22: the keys of the mapping to_row returns are exactly the names of the
\* Column Schema, one key per column: no column is left to the writer's
\* default and no key is dropped by the writer.
C22_KeysAreSchema ==
  ToRowReturned =>
    /\ DOMAIN ret.v = SchemaCols
    /\ Cardinality(SchemaCols) = Len(HEADER_COLS)
    /\ row_cells(ret.v, cfg.cell_missing) = [i \in 1..Len(HEADER_COLS) |-> RetCell(HEADER_COLS[i])]

C22_EmptyRecordAllKeys ==
  /\ ToRowReturned
  /\ arg.x = D(<<>>)
  /\ Cardinality(DOMAIN ret.v) = 167

\* C23: an empty-string award_id of a grant is rendered as a null one, by the
\* per-token marker in its slot, while other fields tell the two apart: an
\* empty title, doi or ids.doi gives an empty cell, a null one the whole-cell
\* marker.
C23_AwardIdBlankAsNull ==
  \A v \in {St(<<>>), Null}, more \in BOOLEAN :
    (ToRowReturned /\ arg.x = BlankWork(v, more)) =>
      /\ RetCell("grants.award_id") =
           IF more THEN cfg.token_missing \o cfg.list_sep \o <<"a", "7">>
           ELSE cfg.token_missing
      /\ \A c \in {"title", "doi", "ids.doi"} :
           RetCell(c) = IF v = Null THEN cfg.cell_missing ELSE <<>>

C23_BlankTitleDiffers ==
  /\ ToRowReturned
  /\ arg.x = BlankWork(St(<<>>), TRUE)
  /\ cfg.cell_missing = tNA /\ cfg.token_missing = tNone /\ cfg.list_sep = <<"|">>
  /\ RetCell("grants.award_id") = tNone \o <<"|", "a", "7">>
  /\ RetCell("title") = <<>>
  /\ RetCell("title") # cfg.cell_missing

\* C24: when to_row raises on record k the run stops there: the output file
\* is closed with the header and the rows of records 1..k-1, nothing is rolled
\* back, no log is written and no step follows; and the loop never goes
\* past a record on which to_row raises.
C24_StopsAtFailingRecord ==
  /\ [](pc = "crashed" =>
          /\ next >= 1 /\ next <= Len(Records)
          /\ raises_to_row(Records[next])
          /\ \A i \in 1..(next - 1) : ~raises_to_row(Records[i])
          /\ out.exists /\ ~out.open
          /\ count = next - 1
          /\ out.lines = <<HeaderLine>> \o [i \in 1..(next - 1) |-> RowLine(Records[i])]
          /\ log = NoLog)
  /\ [](pc \in {"iter", "write", "closed", "done"} =>
          \A i \in 1..next : ~raises_to_row(Records[i]))
  /\ [][pc # "crashed"]_vars

C24_SecondRecordFails ==
  /\ pc = "crashed"
  /\ next = 2
  /\ Len(out.lines) = 2
  /\ out.lines[2] = RowLine(Records[1])
  /\ ~log.exists

\* The input is an object; it has a `results` key whose value is a list; the
\* objects among the elements of that list.
ObjectInput == input.kind = "json" /\ input.doc.t = "dict"
ResultsIsList ==
  \E i \in 1..Len(input.doc.v) :
    input.doc.v[i][1] = "results" /\ input.doc.v[i][2].t = "list"
ResultObjects ==
  LET r == input.doc.v[CHOOSE i \in 1..Len(input.doc.v) : input.doc.v[i][1] = "results"][2].v
  IN SelectSeq(r, LAMBDA x : x.t = "dict")

\* C25: an object is an envelope exactly when it has a `results` key whose
\* value is a list.  Otherwise the object is yielded as the one record, even
\* with a `results` key of another type; an envelope is never yielded itself,
\* only the objects of its list are, in order.
C25_EnvelopeIffResultsList ==
  ObjectInput =>
    IF ResultsIsList
    THEN /\ next <= Len(ResultObjects)
         /\ pc \in {"flatten", "write", "crashed"} =>
              work = ResultObjects[next] /\ work # input.doc
         /\ pc \in {"closed", "done"} => next = Len(ResultObjects)
    ELSE /\ next <= 1
         /\ pc \in {"flatten", "write", "crashed"} => work = input.doc
         /\ pc \in {"closed", "done"} => next = 1

C25_ResultsNotAList ==
  /\ ObjectInput
  /\ \E i \in 1..Len(input.doc.v) : input.doc.v[i][1] = "results"
  /\ ~ResultsIsList
  /\ pc = "done"
  /\ Len(DataRows) = 1
  /\ DataRows[1] = RowLine(input.doc)

\* The field names shared by the primary_location.* and best_oa_location.*
\* columns.
LocationFields ==
  {"is_oa", "landing_page_url", "pdf_url", "license", "license_id", "version",
   "is_accepted", "is_published", "source.id", "source.display_name",
   "source.issn_l", "source.issn", "source.is_oa", "source.is_in_doaj",
   "source.is_indexed_in_scopus", "source.is_core", "source.host_organization",
   "source.host_organization_name", "source.host_organization_lineage",
   "source.host_organization_lineage_names", "source.type"}
LocationBlocksReturned == pc = "returned" /\ arg.f = "location_blocks" /\ ~ret.raised
PrimaryCell(f) == ret.v[1]["primary_location." \o f]
BestOaCell(f) == ret.v[2]["best_oa_location." \o f]

\* C26: for every location value and every configuration, the record with
\* that value as primary_location and the record with it as best_oa_location
\* have the same value in each of the 21 columns of the same field name, and
\* all 21 hold the missing-cell marker when the value is absent, null or the
\* empty object.
C26_LocationBlocksAgree ==
  LocationBlocksReturned =>
    /\ Cardinality(LocationFields) = 21
    /\ \A f \in LocationFields : PrimaryCell(f) = BestOaCell(f)
    /\ arg.x \in {<<>>, <<Null>>, <<D(<<>>)>>} =>
         \A f \in LocationFields :
           /\ PrimaryCell(f) = St(cfg.cell_missing)
           /\ BestOaCell(f) = St(cfg.cell_missing)

C26_PopulatedLocation ==
  /\ LocationBlocksReturned
  /\ arg.x = <<Loc1>>
  /\ cfg.bool_style = "fr"
  /\ PrimaryCell("is_oa") = St(tVrai)
  /\ BestOaCell("license_id") = St(cfg.cell_missing)
  /\ BestOaCell("source.issn") # St(cfg.cell_missing)

=============================================================================
